---- MODULE Spec2Model ----
(***************************************************************************)
(* SPRADA backend: the request pipeline of the Express application.        *)
(*   /api JWT gate -> route handler (role gate, validation) -> req.txRun   *)
(*   (pool.connect, BEGIN, session variables, fn, COMMIT / ROLLBACK,       *)
(*   release) -> HTTP response.                                            *)
(* The database is the external collaborator: committed tables plus the    *)
(* pending writes of each pooled connection (READ COMMITTED).  A statement *)
(* may fail (a fault); a failed COMMIT or ROLLBACK is a connection-level   *)
(* failure after which the server discards the transaction.  After a       *)
(* statement has failed inside a transaction, every later statement of     *)
(* that transaction fails too (25P02, or the connection is gone) and a     *)
(* COMMIT ends it without applying anything.                               *)
(***************************************************************************)
EXTENDS Integers, Sequences, FiniteSets, TLC

\* ---- bounds of the model ----
MaxArrivals == 3     \* requests that arrive in one behaviour
MaxFaults == 2       \* statements / acquisitions that fail in one behaviour
MaxPool == 2         \* largest pool size tried (db.js sets max: 20)
MaxSockets == 3      \* SSE connections that can be open at once
MaxEvents == 2       \* events counted on one SSE connection

\* The request slots: a slot is reused by a later request once its response
\* has been sent.  Spec runs the requests one after the other in slot r1;
\* SpecConc runs two requests at once.
Req == {"r1", "r2"}
Conn == 1..MaxPool
NoConn == 0

\* ---- src/middleware/permissions.js ----
ROLE_ADMIN == 1
ROLE_EDITOR == 2
ROLE_USER == 3
ROLE_GUEST == 4

PermNames == {"blog.create", "blog.update", "blog.delete", "blog.publish",
              "blog.upload", "blog.comment", "blog.like", "blog.read"}

PERMISSIONS ==
  [n \in PermNames |->
     CASE n \in {"blog.create", "blog.update", "blog.delete", "blog.publish", "blog.upload"}
            -> {ROLE_ADMIN}
       [] n \in {"blog.comment", "blog.like"} -> {ROLE_ADMIN, ROLE_USER, ROLE_EDITOR}
       [] OTHER -> {ROLE_ADMIN, ROLE_EDITOR, ROLE_USER, ROLE_GUEST}]

\* req.user: unset, or the identity jwtAuthMiddleware attached
NoUser == [id |-> "unset", role |-> 0]
UserOf(role) ==
  [id |-> CASE role = 1 -> "u1" [] role = 2 -> "u2" [] OTHER -> "u3", role |-> role]

\* String(req.user.role): the value the session variable is given
RoleStr(role) ==
  CASE role = 1 -> "1" [] role = 2 -> "2" [] role = 3 -> "3" [] OTHER -> "4"

\* the middleware's answer: next() or a response
GateNext == [next |-> TRUE, status |-> 0, error |-> "none"]
GateDeny(status, error) == [next |-> FALSE, status |-> status, error |-> error]

\* names every object has without registering them: PERMISSIONS[name] is then
\* a function or an object, not undefined and not an array
InheritedNames == {"constructor"}

\* variant: a caller without identity is let through
hasPermission_AnonymousAdmitted(permissionName, user) ==
  IF permissionName \notin DOMAIN PERMISSIONS THEN GateDeny(500, "server_error")
  ELSE IF user = NoUser \/ user.role \in PERMISSIONS[permissionName]
    THEN GateNext ELSE GateDeny(403, "forbidden")

\* variant: an unknown name is treated as a capability nobody has
hasPermission_UnknownDenied(permissionName, user) ==
  IF permissionName \notin DOMAIN PERMISSIONS \/ user = NoUser
    THEN GateDeny(403, "not_allowed")
    ELSE IF user.role \in PERMISSIONS[permissionName]
      THEN GateNext ELSE GateDeny(403, "forbidden")

hasPermission(permissionName, user) ==
  IF permissionName \in InheritedNames
    \* allowedRoles.includes is not a function: the TypeError goes to the
    \* error handler of index.js, which answers 500 server_error
    THEN GateDeny(500, "server_error")
  ELSE IF permissionName \notin DOMAIN PERMISSIONS
    THEN GateDeny(500, "server_error")
    ELSE IF user = NoUser
      THEN IF ROLE_GUEST \in PERMISSIONS[permissionName]
             THEN GateNext ELSE GateDeny(403, "not_allowed")
      ELSE IF user.role \in PERMISSIONS[permissionName]
             THEN GateNext ELSE GateDeny(403, "forbidden")

\* ---- routes/auth.js ----
\* jwt.verify(refreshToken, JWT_SECRET): the signature and the expiry of the
\* token decide, nothing stored does
jwtVerify(tok) == tok \in {"rt", "rt_gone"}

\* ---- route helpers (products.js, categories.js, leads.js, productImages.js) ----
requireAuth(user) ==
  IF user = NoUser THEN GateDeny(401, "unauthorized") ELSE GateNext

\* variant: only identified callers are checked
requireEditorOrAdmin_IdentifiedOnly(user) ==
  IF user # NoUser /\ ~(user.role = 1 \/ user.role = 2) THEN GateDeny(403, "forbidden")
  ELSE GateNext

requireEditorOrAdmin(user) ==
  IF user = NoUser THEN GateDeny(401, "unauthorized")
  ELSE IF user.role = 1 \/ user.role = 2 THEN GateNext
  ELSE GateDeny(403, "forbidden")

\* ---- the routes of the model ----
\*  cat_post     POST   /api/categories        (categories.js)
\*  prod_delete  DELETE /api/products/:id      (products.js)
\*  pimg_post    POST   /api/product-images    (productImages.js, transactional)
\*  pimg_upload  POST   /api/product-images    (productImages.js, storage upload variant)
\*  leads_post   POST   /api/leads             (leads.js, public)
\*  perm         a router guarded by hasPermission(name)
\*  users_post   POST   /api/users             (users.js, no role gate)
Routes == {"cat_post", "prod_delete", "pimg_post", "pimg_upload", "leads_post",
           "users_post", "perm"}

\* the blog routes (routes/cookieConsents.js, the blogs router)
\*  blog_post     POST   /api/blogs
\*  blog_delete   DELETE /api/blogs/:id
\*  blog_publish  POST   /api/blogs/:id/publish
BlogRoutes == {"blog_post", "blog_delete", "blog_publish"}

\* routes/visitors.js
\*  vis_identify  POST   /api/visitors/identify   (public; its own transaction)
\*  vis_event     POST   /api/visitors/event      (public; its own transaction)
VisitorRoutes == {"vis_identify", "vis_event"}

\* the Authorization header of a request: absent, a Bearer token that
\* jwt.verify rejects, or a valid token carrying a role claim
AuthKinds == {"none", "invalid", "admin", "editor", "user"}
TokenRole(auth) ==
  CASE auth = "admin" -> ROLE_ADMIN
    [] auth = "editor" -> ROLE_EDITOR
    [] auth = "user" -> ROLE_USER
    [] OTHER -> 0

\* the /api gate of index.js lets these paths through without jwtAuthMiddleware
PublicPath(route) == route \in {"leads_post", "auth_refresh"} \cup VisitorRoutes

\* variant: a token that fails verification is treated like no token
jwtAuthMiddleware_Downgrade(auth) ==
  IF auth \in {"none", "invalid"}
    THEN [next |-> TRUE, status |-> 0, error |-> "none", user |-> NoUser]
    ELSE [next |-> TRUE, status |-> 0, error |-> "none", user |-> UserOf(TokenRole(auth))]

\* jwtAuthMiddleware: what it does with the header
jwtAuthMiddleware(auth) ==
  IF auth = "none" THEN [next |-> TRUE, status |-> 0, error |-> "none", user |-> NoUser]
  ELSE IF auth = "invalid"
    THEN [next |-> FALSE, status |-> 401, error |-> "invalid_token", user |-> NoUser]
    ELSE [next |-> TRUE, status |-> 0, error |-> "none", user |-> UserOf(TokenRole(auth))]

\* the /api JWT gate
JwtGateResult(route, auth) ==
  IF PublicPath(route)
    THEN [next |-> TRUE, status |-> 0, error |-> "none", user |-> NoUser]
    ELSE jwtAuthMiddleware(auth)

\* ---- errors ----
NoErr == [kind |-> "none", status |-> 0, code |-> "none"]
SlugConflictErr == [kind |-> "slug_conflict", status |-> 409, code |-> "none"]
NotFoundErr == [kind |-> "not_found", status |-> 404, code |-> "none"]
QueryErr(stmt) == [kind |-> stmt, status |-> 0, code |-> "query_failed"]
UniqueViolation(stmt) == [kind |-> stmt, status |-> 0, code |-> "23505"]
\* pool.connect() rejects: a new connection could not be opened, or the wait
\* for a free one exceeded connectionTimeoutMillis
ConnectErr == [kind |-> "connect", status |-> 0, code |-> "ECONNREFUSED"]
TimeoutErr == [kind |-> "connect", status |-> 0, code |-> "timeout"]
RollbackErr == QueryErr("ROLLBACK")
\* current transaction is aborted, commands ignored until end of transaction block
AbortedErr(stmt) == [kind |-> stmt, status |-> 0, code |-> "25P02"]

\* ---- text: a string is the sequence of its characters ----
Uppers == <<"A", "B", "C", "D", "E", "F", "G", "H", "I", "J", "K", "L", "M",
            "N", "O", "P", "Q", "R", "S", "T", "U", "V", "W", "X", "Y", "Z">>
Lowers == <<"a", "b", "c", "d", "e", "f", "g", "h", "i", "j", "k", "l", "m",
            "n", "o", "p", "q", "r", "s", "t", "u", "v", "w", "x", "y", "z">>
Digits == {"0", "1", "2", "3", "4", "5", "6", "7", "8", "9"}
White == {" ", "\t"}

\* .toLowerCase()
toLowerCase(text) ==
  [i \in DOMAIN text |->
     IF \E k \in DOMAIN Uppers : Uppers[k] = text[i]
     THEN Lowers[CHOOSE k \in DOMAIN Uppers : Uppers[k] = text[i]]
     ELSE text[i]]

\* .trim()
RECURSIVE trimStart(_)
trimStart(text) ==
  IF text # <<>> /\ Head(text) \in White THEN trimStart(Tail(text)) ELSE text
RECURSIVE trimEnd(_)
trimEnd(text) ==
  IF text # <<>> /\ text[Len(text)] \in White
  THEN trimEnd(SubSeq(text, 1, Len(text) - 1)) ELSE text
trim(text) == trimEnd(trimStart(text))

\* the characters /[^a-z0-9\-_ ]/g leaves in place
SlugChars == {Lowers[k] : k \in DOMAIN Lowers} \cup Digits \cup {"-", "_", " "}

\* .replace(/X+/g, to) for a class X of characters: each run becomes one `to`
RECURSIVE skipRun(_, _)
skipRun(text, class) ==
  IF text # <<>> /\ Head(text) \in class THEN skipRun(Tail(text), class) ELSE text
RECURSIVE replaceRuns(_, _, _)
replaceRuns(text, class, to) ==
  IF text = <<>> THEN <<>>
  ELSE IF Head(text) \in class
       THEN <<to>> \o replaceRuns(skipRun(text, class), class, to)
       ELSE <<Head(text)>> \o replaceRuns(Tail(text), class, to)

\* .replace(/^-|-$/g, "")
stripEdges(text) ==
  LET t == IF text # <<>> /\ Head(text) = "-" THEN Tail(text) ELSE text
  IN IF t # <<>> /\ t[Len(t)] = "-" THEN SubSeq(t, 1, Len(t) - 1) ELSE t

\* variant: the text is stored as the slug unchanged
slugify_Identity(text) == text
\* categories.js slugify(text)
slugify(text) ==
  stripEdges(
    replaceRuns(
      replaceRuns(
        SelectSeq(trim(toLowerCase(text)), LAMBDA ch : ch \in SlugChars),
        White, "-"),
      {"-"}, "-"))

\* ---- request inputs ----
IndustrialMachinery ==
  <<"I", "n", "d", "u", "s", "t", "r", "i", "a", "l", " ",
    "M", "a", "c", "h", "i", "n", "e", "r", "y">>
\* a body.slug spelled otherwise: " INDUSTRIAL  machinery!"
OtherSpelling ==
  <<" ", "I", "N", "D", "U", "S", "T", "R", "I", "A", "L", " ", " ",
    "m", "a", "c", "h", "i", "n", "e", "r", "y", "!">>
Pumps == <<"P", "u", "m", "p", "s">>
\* body.name and body.slug of the category requests tried
CategoryBodies ==
  { [name |-> IndustrialMachinery, slug |-> <<>>],
    [name |-> Pumps, slug |-> OtherSpelling],
    [name |-> <<" ">>, slug |-> <<>>] }
\* const slug = slugify(body.slug || body.name)
SlugOf(input) == slugify(IF input.slug # <<>> THEN input.slug ELSE input.name)
\* !body.name || !String(body.name).trim()
NameGiven(input) == trim(input.name) # <<>>
Slugs == {SlugOf(b) : b \in {c \in CategoryBodies : NameGiven(c)}}
Emails == {"a@sprada"}
Products == {"p1"}
\* sid: the session_id of a visitors request: absent, a UUID, or a session name
\* tok: the refreshToken of POST /api/auth/refresh: absent, not signed by this
\* server, or a refresh token this server issued ("rt_gone": to a user since deleted)
NoInput == [hasName |-> FALSE, name |-> <<>>, slug |-> <<>>, prim |-> FALSE,
            perm |-> "-", sid |-> "-", tok |-> "-"]

\* the bodies / parameters tried for each route
Inputs(route) ==
  CASE route = "cat_post" ->
         {NoInput} \cup {[NoInput EXCEPT !.name = b.name, !.slug = b.slug] : b \in CategoryBodies}
    [] route = "blog_post" ->       \* hasName: title and content are present
         {NoInput, [NoInput EXCEPT !.hasName = TRUE]}
    [] route \in {"pimg_post", "pimg_upload"} ->
         {[NoInput EXCEPT !.prim = b] : b \in BOOLEAN}
    [] route = "perm" ->
         {[NoInput EXCEPT !.perm = n] :
            n \in PermNames \cup {"blog.unknown"} \cup InheritedNames}
    [] route = "vis_identify" ->
         {[NoInput EXCEPT !.sid = x] : x \in {"-", "uuid", "s1"}}
    [] route = "vis_event" ->       \* hasName: event_type is present
         {[NoInput EXCEPT !.sid = x, !.hasName = b] :
            x \in {"-", "uuid", "s1"}, b \in BOOLEAN}
    [] route = "auth_refresh" ->
         {[NoInput EXCEPT !.tok = x] : x \in {"-", "forged", "rt", "rt_gone"}}
    [] OTHER -> {NoInput}

\* ---- state ----
VARIABLES
  txImpl,      \* which req.txRun is installed: transaction.js, db.middleware.js or index.js
  poolMax,     \* the pool's max (db.js)
  slugUnique,  \* whether the schema has a unique constraint on categories.slug
  sessionGuard, \* whether DB_USE_SESSION_GUARD is set in the environment (visitors.js)
  schema,      \* the unique constraints the database has beyond the one on slugs
  sse,         \* the SSE connections and the in-memory client collections
  rq,          \* the request in each slot: position, identity, txRun's locals, response
  cn,          \* the pooled connections: owner, open transaction, session variables, pending writes
  db,          \* the committed tables
  arrivals,    \* requests arrived so far
  faults       \* failures injected so far

vars == <<txImpl, poolMax, slugUnique, sessionGuard, schema, sse, rq, cn, db, arrivals, faults>>

\* the configuration: fixed once the process has started
cfg == <<txImpl, poolMax, slugUnique, sessionGuard, schema, sse>>
\* what the SSE routes leave alone
reqState == <<txImpl, poolMax, slugUnique, sessionGuard, schema, rq, cn, db, arrivals, faults>>

\* the SSE sockets; open[k] names the route an open connection came in on,
\* "ending" is a connection whose response the server has ended
Sockets == 1..MaxSockets
NoSse ==
  [open |-> [k \in Sockets |-> "closed"], clients |-> {}, map |-> {}, timers |-> {},
   sent |-> [k \in Sockets |-> 0], stale |-> FALSE, closes |-> 0]

TxImpls == {"transaction", "dbmw", "index"}

\* the committed tables at start: one product, nothing else
EmptyDb ==
  [categories |-> [s \in Slugs |-> 0], products |-> Products, users |-> {},
   prim |-> 0, nonprim |-> 0, blogs |-> 0, published |-> 0, visitors |-> 0,
   uuidVisitors |-> 0, events |-> 0, refresh_tokens |-> {},
   blog_likes |-> {}, likeSeq |-> 0]

\* db0 is the committed state when the handler started
IdleReq ==
  [pc |-> "idle", route |-> "-", auth |-> "none", input |-> NoInput, user |-> NoUser,
   conn |-> NoConn, stmt |-> "-", err |-> NoErr, orig |-> NoErr, fnErr |-> NoErr,
   fnValue |-> "-", result |-> "-", slug |-> <<>>, db0 |-> EmptyDb,
   status |-> 0, error |-> "none",
   log |-> <<>>, fnCalls |-> 0, acquired |-> 0, releases |-> 0, handlerRan |-> FALSE,
   tries |-> 0, seen |-> [id |-> "unset", role |-> "unset"], waited |-> FALSE,
   row |-> 0, cnt |-> 0]

\* the pending writes of an open transaction; locked counts the product_images
\* rows its UPDATE touched (and holds row locks on), cleared those it turned
\* from primary to not primary
NoWrites == [insCat |-> {}, delProd |-> {}, insUser |-> {}, locked |-> 0,
             cleared |-> 0, insImg |-> "none", insBlog |-> 0, delBlog |-> 0,
             insVis |-> 0, lockVis |-> 0, insUuid |-> 0, insEvt |-> 0]

\* failed: a statement of the open transaction has failed
FreeConn ==
  [owner |-> "free", tx |-> FALSE, failed |-> FALSE, guard |-> FALSE,
   user_id |-> "unset", user_role |-> "unset", w |-> NoWrites]

Init ==
  /\ txImpl \in TxImpls
  /\ poolMax = 1
  /\ slugUnique \in BOOLEAN
  /\ sessionGuard = FALSE
  /\ schema = {}
  /\ sse = NoSse
  /\ rq = [r \in Req |-> IdleReq]
  /\ cn = [c \in Conn |-> FreeConn]
  /\ db = EmptyDb
  /\ arrivals = 0
  /\ faults = 0

\* ---- the pool ----
InUse == Cardinality({c \in Conn : cn[c].owner # "free"})
\* variant: the pool hands out a connection that is still checked out
Idle_Shared(c) == c <= poolMax
Idle(c) == c <= poolMax /\ cn[c].owner = "free"
CanFault == faults < MaxFaults

\* ---- a request arrives ----
ArriveWith(r, routes, auths) ==
  /\ rq[r].pc \in {"idle", "done"}
  /\ arrivals < MaxArrivals
  /\ \E route \in routes, auth \in auths :
       \E input \in Inputs(route) :
         rq' = [rq EXCEPT ![r] = [IdleReq EXCEPT !.pc = "gate", !.route = route,
                                                 !.auth = auth, !.input = input]]
  /\ arrivals' = arrivals + 1
  /\ UNCHANGED <<cfg, cn, db, faults>>

Arrive(r) == ArriveWith(r, Routes, AuthKinds)

\* a response is sent: the request is over
Reply(rec, status, error) ==
  [rec EXCEPT !.pc = "done", !.status = status, !.error = error]

\* ---- index.js: app.use('/api', ...) JWT gate ----
JwtGate(r) ==
  /\ rq[r].pc = "gate"
  /\ LET g == JwtGateResult(rq[r].route, rq[r].auth) IN
       rq' = [rq EXCEPT ![r] =
                IF g.next THEN [@ EXCEPT !.pc = "handler", !.user = g.user]
                ELSE Reply(@, g.status, g.error)]
  /\ UNCHANGED <<cfg, cn, db, arrivals, faults>>

\* a statement issued by the request: on its client, or through pool.query (c = 0)
\* ok tells whether the statement completed or rejected
Issue(rec, q, ok) == [rec EXCEPT !.log = Append(@, [c |-> rec.conn, q |-> q, ok |-> ok])]
PoolIssue(rec, q, ok) == [rec EXCEPT !.log = Append(@, [c |-> NoConn, q |-> q, ok |-> ok])]

\* pool.query needs an idle connection for the duration of the statement
PoolReady == \E c \in Conn : Idle(c)

\* ---- the pool when every connection is checked out ----
\* a request is inside pool.connect()
ConnectPcs == {"connect", "vis_connect"}

\* variant: the wait is cut short, the caller is rejected without having queued
CanTimeout_Immediate(rec) == TRUE
\* the timer of connectionTimeoutMillis runs from the moment the caller is queued
CanTimeout(rec) == rec.waited

\* pool.connect() finds no free connection: the caller is queued, its timer armed
PoolWait(r) ==
  /\ rq[r].pc \in ConnectPcs
  /\ ~PoolReady
  /\ ~rq[r].waited
  /\ rq' = [rq EXCEPT ![r].waited = TRUE]
  /\ UNCHANGED <<cfg, cn, db, arrivals, faults>>

\* connectionTimeoutMillis passes with the pool still exhausted: pool.connect()
\* rejects; txRun rejects before its try, the visitors handler answers 500
PoolTimeout(r) ==
  /\ rq[r].pc \in ConnectPcs
  /\ ~PoolReady
  /\ CanTimeout(rq[r])
  /\ rq' = [rq EXCEPT ![r] =
              IF @.pc = "connect" THEN [@ EXCEPT !.pc = "settled", !.err = TimeoutErr]
              ELSE Reply([@ EXCEPT !.err = TimeoutErr], 500, "server_error")]
  /\ UNCHANGED <<cfg, cn, db, arrivals, faults>>


\* row locks held by open transactions
ImagesLocked == \E c \in Conn : cn[c].w.locked > 0
ImagesLockedByOther(me) == \E c \in Conn \ {me} : cn[c].w.locked > 0

\* ---- the options a route passes to req.txRun(fn, opts) ----
TxOpts(rec) ==
  IF rec.route = "pimg_post"
    THEN [userId |-> rec.user # NoUser, userRole |-> rec.user # NoUser]
    ELSE [userId |-> FALSE, userRole |-> FALSE]

\* ---- the statements of fn, route by route ----
FirstStmt(rec) ==
  CASE rec.route = "cat_post" -> "SELECT dup"
    [] rec.route = "prod_delete" ->
         IF rec.user # NoUser THEN "set_config app.user_id" ELSE "DELETE products"
    [] rec.route = "pimg_post" ->
         IF rec.user # NoUser THEN "set_config app.user_id" ELSE "diag"
    [] rec.route = "blog_post" -> "SELECT blog slug"
    [] rec.route = "blog_delete" -> "DELETE blogs"
    [] OTHER -> "INSERT users"

\* the statement after stmt; "return" when fn returns
NextStmt(rec, stmt) ==
  CASE stmt = "SELECT dup" -> "INSERT categories"
    [] stmt = "INSERT categories" -> "SELECT category"
    [] stmt = "set_config app.user_id" ->
         IF rec.route = "prod_delete" THEN "DELETE products" ELSE "set_config app.user_role"
    [] stmt = "set_config app.user_role" -> "diag"
    [] stmt = "diag" ->
         IF rec.input.prim THEN "UPDATE product_images" ELSE "INSERT product_images"
    [] stmt = "UPDATE product_images" -> "INSERT product_images"
    [] stmt = "SELECT blog slug" -> "INSERT blogs"
    [] OTHER -> "return"

\* fn catches the failure of these statements itself and goes on
Tolerated(stmt) == stmt \in {"set_config app.user_id", "set_config app.user_role", "diag"}

\* control moves to pc; entering fn is a call of fn
Goto(rec, pc) ==
  IF pc = "fn"
    THEN [rec EXCEPT !.pc = "fn", !.stmt = FirstStmt(rec), !.fnCalls = @ + 1]
    ELSE [rec EXCEPT !.pc = pc]

\* ---- the synchronous head of each route handler, up to its first await ----
Handler(r) ==
  /\ rq[r].pc = "handler"
  /\ LET rec == [rq[r] EXCEPT !.handlerRan = TRUE, !.db0 = db]
         g == CASE rec.route \in {"cat_post", "prod_delete"} -> requireEditorOrAdmin(rec.user)
                [] rec.route \in BlogRoutes -> requireEditorOrAdmin(rec.user)
                [] rec.route \in {"pimg_post", "pimg_upload", "blog_like"} -> requireAuth(rec.user)
                [] rec.route = "perm" -> hasPermission(rec.input.perm, rec.user)
                [] OTHER -> GateNext
     IN rq' = [rq EXCEPT ![r] =
          IF ~g.next THEN Reply(rec, g.status, g.error)
          ELSE CASE rec.route = "cat_post" ->
                      IF NameGiven(rec.input)
                      THEN [rec EXCEPT !.pc = "connect", !.slug = SlugOf(rec.input)]
                      ELSE Reply(rec, 400, "name_required")
                 [] rec.route \in {"prod_delete", "users_post", "blog_delete"} ->
                      [rec EXCEPT !.pc = "connect"]
                 [] rec.route = "blog_post" -> [rec EXCEPT !.pc = "set_app_user"]
                 [] rec.route = "blog_publish" -> [rec EXCEPT !.pc = "publish"]
                 [] rec.route = "vis_identify" ->
                      IF rec.input.sid = "-" THEN Reply(rec, 400, "session_id required")
                      ELSE IF rec.input.sid = "uuid" THEN Reply(rec, 200, "ok")
                      ELSE [rec EXCEPT !.pc = "vis_connect"]
                 [] rec.route = "vis_event" ->
                      IF ~rec.input.hasName THEN Reply(rec, 400, "event_type required")
                      ELSE IF rec.input.sid = "-"
                        THEN Reply(rec, 400, "visitor_id or session_id required")
                      ELSE [rec EXCEPT !.pc = "vis_connect"]
                 [] rec.route = "pimg_post" -> [rec EXCEPT !.pc = "validate_product"]
                 [] rec.route = "pimg_upload" -> [rec EXCEPT !.pc = "upload"]
                 [] rec.route = "leads_post" -> [rec EXCEPT !.pc = "insert_lead"]
                 [] rec.route = "blog_like" -> [rec EXCEPT !.pc = "like_select"]
                 [] rec.route = "auth_refresh" ->
                      IF rec.input.tok = "-" THEN Reply(rec, 400, "refreshToken required")
                      ELSE IF ~jwtVerify(rec.input.tok) THEN Reply(rec, 401, "invalid_refresh")
                      ELSE [rec EXCEPT !.pc = "refresh_user"]
                 [] OTHER -> [rec EXCEPT !.pc = "done", !.error = "next"]]
  /\ UNCHANGED <<cfg, cn, db, arrivals, faults>>

\* ---- productImages.js POST: the product check through pool.query ----
ValidateProduct(r) ==
  /\ rq[r].pc = "validate_product"
  /\ PoolReady
  /\ \/ /\ rq' = [rq EXCEPT ![r] =
               IF Products \subseteq db.products
                 THEN [PoolIssue(@, "SELECT products", TRUE) EXCEPT !.pc = "connect"]
                 ELSE Reply(PoolIssue(@, "SELECT products", TRUE), 400, "invalid_product_id")]
        /\ UNCHANGED faults
     \/ /\ CanFault        \* the query fails: the handler only warns
        /\ rq' = [rq EXCEPT ![r] =
                    [PoolIssue(@, "SELECT products", FALSE) EXCEPT !.pc = "connect"]]
        /\ faults' = faults + 1
  /\ UNCHANGED <<cfg, cn, db, arrivals>>

\* ---- productImages.js POST (upload variant): no transaction ----
\* supabase.storage.from(BUCKET).upload(...)
Upload(r) ==
  /\ rq[r].pc = "upload"
  /\ \/ /\ rq' = [rq EXCEPT ![r] =
                [@ EXCEPT !.pc = IF rq[r].input.prim THEN "clear_primary" ELSE "insert_image"]]
        /\ UNCHANGED faults
     \/ /\ CanFault
        /\ rq' = [rq EXCEPT ![r] = Reply(@, 500, "upload_failed")]
        /\ faults' = faults + 1
  /\ UNCHANGED <<cfg, cn, db, arrivals>>

\* db.query('UPDATE product_images SET is_primary=false WHERE product_id=$1')
PoolClearPrimary(r) ==
  /\ rq[r].pc = "clear_primary"
  /\ PoolReady
  /\ \/ /\ ~ImagesLocked
        /\ db' = [db EXCEPT !.prim = 0, !.nonprim = @ + db.prim]
        /\ rq' = [rq EXCEPT ![r] =
                    [PoolIssue(@, "UPDATE product_images", TRUE) EXCEPT !.pc = "insert_image"]]
        /\ UNCHANGED faults
     \/ /\ CanFault
        /\ rq' = [rq EXCEPT ![r] =
                    Reply(PoolIssue(@, "UPDATE product_images", FALSE), 500, "upload_failed")]
        /\ faults' = faults + 1
        /\ UNCHANGED db
  /\ UNCHANGED <<cfg, cn, arrivals>>

\* db.query('INSERT INTO product_images ... RETURNING ...')
PoolInsertImage(r) ==
  /\ rq[r].pc = "insert_image"
  /\ PoolReady
  /\ \/ /\ db' = IF rq[r].input.prim THEN [db EXCEPT !.prim = @ + 1]
                 ELSE [db EXCEPT !.nonprim = @ + 1]
        /\ rq' = [rq EXCEPT ![r] =
                    Reply([PoolIssue(@, "INSERT product_images", TRUE) EXCEPT !.result = "image"],
                          201, "ok")]
        /\ UNCHANGED faults
     \/ /\ CanFault
        /\ rq' = [rq EXCEPT ![r] =
                    Reply(PoolIssue(@, "INSERT product_images", FALSE), 500, "upload_failed")]
        /\ faults' = faults + 1
        /\ UNCHANGED db
  /\ UNCHANGED <<cfg, cn, arrivals>>

\* ---- leads.js POST (public) ----
InsertLead(r) ==
  /\ rq[r].pc = "insert_lead"
  /\ PoolReady
  /\ \/ /\ rq' = [rq EXCEPT ![r] =
                    Reply([PoolIssue(@, "INSERT leads", TRUE) EXCEPT !.result = "lead"], 201, "ok")]
        /\ UNCHANGED faults
     \/ /\ CanFault
        /\ rq' = [rq EXCEPT ![r] = Reply(PoolIssue(@, "INSERT leads", FALSE), 500, "server_error")]
        /\ faults' = faults + 1
  /\ UNCHANGED <<cfg, cn, db, arrivals>>

\* ---- auth.js POST /refresh (public): the user is read through pool.query,
\* then a new access token and a new refresh token are signed and returned ----
RefreshUser(r) ==
  /\ rq[r].pc = "refresh_user"
  /\ PoolReady
  /\ \/ /\ rq' = [rq EXCEPT ![r] =
                    IF @.input.tok = "rt_gone"
                    THEN Reply(PoolIssue(@, "SELECT users", TRUE), 401, "invalid_user")
                    ELSE Reply([PoolIssue(@, "SELECT users", TRUE) EXCEPT !.result = "rt"],
                               200, "ok")]
        /\ UNCHANGED faults
     \/ /\ CanFault
        /\ rq' = [rq EXCEPT ![r] = Reply(PoolIssue(@, "SELECT users", FALSE), 500, "server_error")]
        /\ faults' = faults + 1
  /\ UNCHANGED <<cfg, cn, db, arrivals>>

\* ---- req.txRun(fn, opts) ----
\* transaction.js sets the variables it is handed; db.middleware.js takes no
\* options; index.js runs ctx.settings, which no route passes
\* variant: the SET LOCAL is issued without the if (userId) test
SetsUserId_Unguarded(impl, opts) == impl = "transaction"
SetsUserId(impl, opts) == impl = "transaction" /\ opts.userId
SetsUserRole(impl, opts) == impl = "transaction" /\ opts.userRole

AfterBegin(impl, opts) ==
  IF SetsUserId(impl, opts) THEN "set_uid"
  ELSE IF SetsUserRole(impl, opts) THEN "set_role" ELSE "fn"
AfterSetUserId(impl, opts) == IF SetsUserRole(impl, opts) THEN "set_role" ELSE "fn"

\* variant: txRun returns what COMMIT resolved with
TxReturn_CommitResult(fnValue, commitResult) == commitResult
\* const result = await fn(client); await client.query('COMMIT'); return result;
TxReturn(fnValue, commitResult) == fnValue

\* catch (err) { await client.query('ROLLBACK'); throw err; }: the error txRun
\* rejects with when ROLLBACK itself rejects (index.js swallows that rejection)
RollbackFailErr(impl, orig) == IF impl = "index" THEN orig ELSE RollbackErr

\* finally { client.release(); } runs after try and after catch, however they end
AfterCommit == "release"
AfterRollback == "release"
\* variant: release() sits at the end of catch instead of in finally
AfterRollbackFail_NoFinally == "settled"
AfterRollbackFail == "release"

\* variant: the values are session-scoped (SET without LOCAL, set_config(.., false))
EndTx_SessionScoped(conn) ==
  [conn EXCEPT !.tx = FALSE, !.failed = FALSE, !.guard = FALSE, !.w = NoWrites]

\* the end of a transaction on the server: SET LOCAL values and pending writes go
EndTx(conn) ==
  [conn EXCEPT !.tx = FALSE, !.failed = FALSE, !.guard = FALSE,
               !.user_id = "unset", !.user_role = "unset", !.w = NoWrites]

\* COMMIT makes the pending writes visible
ApplyWrites(d, w) ==
  [d EXCEPT !.categories = [s \in Slugs |-> @[s] + IF s \in w.insCat THEN 1 ELSE 0],
            !.products = @ \ w.delProd,
            !.users = @ \cup w.insUser,
            !.prim = @ - w.cleared + IF w.insImg = "primary" THEN 1 ELSE 0,
            !.nonprim = @ + w.cleared + IF w.insImg = "plain" THEN 1 ELSE 0,
            !.blogs = @ + w.insBlog - w.delBlog,
            !.visitors = @ + w.insVis,
            !.uuidVisitors = @ + w.insUuid,
            !.events = @ + w.insEvt,
            !.published = IF db.blogs + w.insBlog - w.delBlog = 0 THEN 0 ELSE @]

FirstIdle == CHOOSE c \in Conn : Idle(c) /\ \A d \in Conn : Idle(d) => c <= d

\* an error is thrown inside txRun's try block: control goes to catch
Throw(rec, e) == [rec EXCEPT !.pc = "rollback", !.err = e, !.orig = e, !.stmt = "-"]

\* const client = await pool.connect();
Connect(r) ==
  /\ rq[r].pc = "connect"
  /\ \/ /\ PoolReady
        /\ cn' = [cn EXCEPT ![FirstIdle].owner = r]
        /\ rq' = [rq EXCEPT ![r] =
                    [@ EXCEPT !.pc = "begin", !.conn = FirstIdle, !.acquired = @ + 1]]
        /\ UNCHANGED faults
     \* opening a new connection fails: txRun rejects before its try (a queued
     \* caller is handed a released connection, which is already open)
     \/ /\ PoolReady /\ ~rq[r].waited /\ CanFault
        /\ rq' = [rq EXCEPT ![r] = [@ EXCEPT !.pc = "settled", !.err = ConnectErr]]
        /\ faults' = faults + 1
        /\ UNCHANGED cn
  /\ UNCHANGED <<cfg, db, arrivals>>

\* await client.query('BEGIN');
Begin(r) ==
  /\ rq[r].pc = "begin"
  /\ \/ /\ cn' = [cn EXCEPT ![rq[r].conn].tx = TRUE]
        /\ rq' = [rq EXCEPT ![r] =
                    Goto(Issue(@, "BEGIN", TRUE), AfterBegin(txImpl, TxOpts(@)))]
        /\ UNCHANGED faults
     \/ /\ CanFault
        /\ rq' = [rq EXCEPT ![r] = Throw(Issue(@, "BEGIN", FALSE), QueryErr("BEGIN"))]
        /\ faults' = faults + 1
        /\ UNCHANGED cn
  /\ UNCHANGED <<cfg, db, arrivals>>

\* await client.query('SET LOCAL app.user_id = $1', [userId]);
SetUserId(r) ==
  /\ rq[r].pc = "set_uid"
  /\ \/ /\ cn' = [cn EXCEPT ![rq[r].conn].user_id = rq[r].user.id]
        /\ rq' = [rq EXCEPT ![r] =
                    Goto(Issue(@, "SET LOCAL app.user_id", TRUE),
                         AfterSetUserId(txImpl, TxOpts(@)))]
        /\ UNCHANGED faults
     \/ /\ CanFault
        /\ rq' = [rq EXCEPT ![r] = Throw(Issue(@, "SET LOCAL app.user_id", FALSE),
                                         QueryErr("SET LOCAL app.user_id"))]
        /\ faults' = faults + 1
        /\ UNCHANGED cn
  /\ UNCHANGED <<cfg, db, arrivals>>

\* await client.query('SET LOCAL app.user_role = $1', [userRole]);
SetUserRole(r) ==
  /\ rq[r].pc = "set_role"
  /\ \/ /\ cn' = [cn EXCEPT ![rq[r].conn].user_role = RoleStr(rq[r].user.role)]
        /\ rq' = [rq EXCEPT ![r] = Goto(Issue(@, "SET LOCAL app.user_role", TRUE), "fn")]
        /\ UNCHANGED faults
     \/ /\ CanFault
        /\ rq' = [rq EXCEPT ![r] = Throw(Issue(@, "SET LOCAL app.user_role", FALSE),
                                         QueryErr("SET LOCAL app.user_role"))]
        /\ faults' = faults + 1
        /\ UNCHANGED cn
  /\ UNCHANGED <<cfg, db, arrivals>>

\* await client.query('COMMIT'); return result;
Commit(r) ==
  /\ rq[r].pc = "commit"
  /\ \/ /\ db' = IF cn[rq[r].conn].failed THEN db ELSE ApplyWrites(db, cn[rq[r].conn].w)
        /\ rq' = [rq EXCEPT ![r] =
                    [Issue(@, "COMMIT", TRUE) EXCEPT
                       !.pc = AfterCommit, !.result = TxReturn(rq[r].fnValue, "COMMIT")]]
        /\ UNCHANGED faults
     \/ /\ CanFault
        /\ rq' = [rq EXCEPT ![r] = Throw(Issue(@, "COMMIT", FALSE), QueryErr("COMMIT"))]
        /\ faults' = faults + 1
        /\ UNCHANGED db
  /\ cn' = [cn EXCEPT ![rq[r].conn] = EndTx(@)]
  /\ UNCHANGED <<cfg, arrivals>>

\* catch (err) { await client.query('ROLLBACK'); throw err; }
Rollback(r) ==
  /\ rq[r].pc = "rollback"
  /\ \/ /\ rq' = [rq EXCEPT ![r] = [Issue(@, "ROLLBACK", TRUE) EXCEPT !.pc = AfterRollback]]
        /\ UNCHANGED faults
     \/ /\ CanFault
        /\ rq' = [rq EXCEPT ![r] =
                    [Issue(@, "ROLLBACK", FALSE) EXCEPT
                       !.pc = AfterRollbackFail, !.err = RollbackFailErr(txImpl, rq[r].err)]]
        /\ faults' = faults + 1
  /\ cn' = [cn EXCEPT ![rq[r].conn] = EndTx(@)]
  /\ UNCHANGED <<cfg, db, arrivals>>

\* finally { client.release(); }  -- after it the promise txRun returned settles
Release(r) ==
  /\ rq[r].pc = "release"
  /\ cn' = [cn EXCEPT ![rq[r].conn].owner = "free"]
  /\ rq' = [rq EXCEPT ![r] =
              [Issue(@, "release", TRUE) EXCEPT !.pc = "settled", !.releases = @ + 1]]
  /\ UNCHANGED <<cfg, db, arrivals, faults>>

\* ---- the statements of fn(client) ----
FnReturn(rec, value) == [rec EXCEPT !.pc = "commit", !.fnValue = value, !.stmt = "-"]
FnThrow(rec, e) == [Throw(rec, e) EXCEPT !.fnErr = e]
Advance(rec, value) ==
  IF NextStmt(rec, rec.stmt) = "return" THEN FnReturn(rec, value)
  ELSE [rec EXCEPT !.stmt = NextStmt(rec, rec.stmt)]

\* fn is about to issue stmt in a transaction that can still run it
AtStmt(r, stmt) == rq[r].pc = "fn" /\ rq[r].stmt = stmt /\ ~cn[rq[r].conn].failed

\* categories.js: SELECT id FROM categories WHERE slug=$1; a row -> throw slug_conflict (409)
FnSelectDup(r) ==
  /\ AtStmt(r, "SELECT dup")
  /\ LET rec == Issue(rq[r], "SELECT dup", TRUE)
         dup == db.categories[rec.slug] > 0 \/ rec.slug \in cn[rec.conn].w.insCat
     IN rq' = [rq EXCEPT ![r] = IF dup THEN FnThrow(rec, SlugConflictErr)
                                ELSE Advance(rec, "-")]
  /\ UNCHANGED <<cfg, cn, db, arrivals, faults>>

\* categories.js: INSERT INTO categories.  Under a unique constraint the insert
\* waits for an open transaction that inserted the same slug, and fails with
\* 23505 when a committed row has it.
FnInsertCategory(r) ==
  /\ AtStmt(r, "INSERT categories")
  /\ LET s == rq[r].slug IN
       /\ slugUnique => \A c \in Conn \ {rq[r].conn} : s \notin cn[c].w.insCat
       /\ IF slugUnique /\ db.categories[s] > 0
            THEN /\ rq' = [rq EXCEPT ![r] = FnThrow(Issue(@, "INSERT categories", FALSE),
                                                    UniqueViolation("INSERT categories"))]
                 /\ UNCHANGED cn
            ELSE /\ rq' = [rq EXCEPT ![r] = Advance(Issue(@, "INSERT categories", TRUE), "-")]
                 /\ cn' = [cn EXCEPT ![rq[r].conn].w.insCat = @ \cup {s}]
  /\ UNCHANGED <<cfg, db, arrivals, faults>>

\* categories.js: SELECT ... WHERE id=$1; return r.rows[0]
FnSelectCategory(r) ==
  /\ AtStmt(r, "SELECT category")
  /\ rq' = [rq EXCEPT ![r] = Advance(Issue(@, "SELECT category", TRUE), "category")]
  /\ UNCHANGED <<cfg, cn, db, arrivals, faults>>

\* setAppUserIdIfPresent / setAppUserGucs: SELECT set_config('app.user_id', $1, true)
FnSetConfigUserId(r) ==
  /\ AtStmt(r, "set_config app.user_id")
  /\ rq' = [rq EXCEPT ![r] = Advance(Issue(@, "set_config app.user_id", TRUE), "-")]
  /\ cn' = [cn EXCEPT ![rq[r].conn].user_id = rq[r].user.id]
  /\ UNCHANGED <<cfg, db, arrivals, faults>>

\* setAppUserGucs: SELECT set_config('app.user_role', $1, true)
FnSetConfigUserRole(r) ==
  /\ AtStmt(r, "set_config app.user_role")
  /\ rq' = [rq EXCEPT ![r] = Advance(Issue(@, "set_config app.user_role", TRUE), "-")]
  /\ cn' = [cn EXCEPT ![rq[r].conn].user_role = RoleStr(rq[r].user.role)]
  /\ UNCHANGED <<cfg, db, arrivals, faults>>

\* productImages.js: the diagnostic SELECT current_setting(...)
FnDiag(r) ==
  /\ AtStmt(r, "diag")
  /\ rq' = [rq EXCEPT ![r] =
              [Advance(Issue(@, "diag", TRUE), "-") EXCEPT
                 !.seen = [id |-> cn[rq[r].conn].user_id, role |-> cn[rq[r].conn].user_role]]]
  /\ UNCHANGED <<cfg, cn, db, arrivals, faults>>

\* productImages.js: UPDATE product_images SET is_primary = false WHERE product_id = $1
FnClearPrimary(r) ==
  /\ AtStmt(r, "UPDATE product_images")
  /\ ~ImagesLockedByOther(rq[r].conn)
  /\ rq' = [rq EXCEPT ![r] = Advance(Issue(@, "UPDATE product_images", TRUE), "-")]
  /\ cn' = [cn EXCEPT ![rq[r].conn].w.locked = db.prim + db.nonprim,
                      ![rq[r].conn].w.cleared = db.prim]
  /\ UNCHANGED <<cfg, db, arrivals, faults>>

\* productImages.js: INSERT INTO product_images ... RETURNING *; return r.rows[0]
FnInsertImage(r) ==
  /\ AtStmt(r, "INSERT product_images")
  /\ rq' = [rq EXCEPT ![r] = Advance(Issue(@, "INSERT product_images", TRUE), "image")]
  /\ cn' = [cn EXCEPT ![rq[r].conn].w.insImg = IF rq[r].input.prim THEN "primary" ELSE "plain"]
  /\ UNCHANGED <<cfg, db, arrivals, faults>>

\* products.js: DELETE FROM products WHERE id=$1 RETURNING id; no row -> throw not_found (404)
FnDeleteProduct(r) ==
  /\ AtStmt(r, "DELETE products")
  /\ \A c \in Conn \ {rq[r].conn} : cn[c].w.delProd = {}
  /\ LET rec == Issue(rq[r], "DELETE products", TRUE) IN
       IF db.products \ cn[rec.conn].w.delProd = {}
         THEN /\ rq' = [rq EXCEPT ![r] = FnThrow(rec, NotFoundErr)]
              /\ UNCHANGED cn
         ELSE /\ rq' = [rq EXCEPT ![r] = Advance(rec, "undefined")]
              /\ cn' = [cn EXCEPT ![rec.conn].w.delProd = db.products]
  /\ UNCHANGED <<cfg, db, arrivals, faults>>

\* users.js: INSERT INTO users ... RETURNING ...; users.email is unique
FnInsertUser(r) ==
  /\ AtStmt(r, "INSERT users")
  /\ \A c \in Conn \ {rq[r].conn} : cn[c].w.insUser = {}
  /\ IF Emails \subseteq db.users
       THEN /\ rq' = [rq EXCEPT ![r] = FnThrow(Issue(@, "INSERT users", FALSE),
                                               UniqueViolation("INSERT users"))]
            /\ UNCHANGED cn
       ELSE /\ rq' = [rq EXCEPT ![r] = Advance(Issue(@, "INSERT users", TRUE), "user")]
            /\ cn' = [cn EXCEPT ![rq[r].conn].w.insUser = Emails]
  /\ UNCHANGED <<cfg, db, arrivals, faults>>

\* a statement of fn fails: fn catches it (set_config, diag) or rejects with it
FnStmtFail(r) ==
  /\ rq[r].pc = "fn"
  /\ ~cn[rq[r].conn].failed
  /\ CanFault
  /\ LET rec == Issue(rq[r], rq[r].stmt, FALSE) IN
       rq' = [rq EXCEPT ![r] = IF Tolerated(rec.stmt) THEN Advance(rec, "-")
                               ELSE FnThrow(rec, QueryErr(rec.stmt))]
  /\ cn' = [cn EXCEPT ![rq[r].conn].failed = TRUE]
  /\ faults' = faults + 1
  /\ UNCHANGED <<cfg, db, arrivals>>

\* a statement of fn issued after a tolerated failure: the transaction is
\* aborted, so the statement fails in its turn
FnStmtAborted(r) ==
  /\ rq[r].pc = "fn"
  /\ cn[rq[r].conn].failed
  /\ LET rec == Issue(rq[r], rq[r].stmt, FALSE) IN
       rq' = [rq EXCEPT ![r] = IF Tolerated(rec.stmt) THEN Advance(rec, "-")
                               ELSE FnThrow(rec, AbortedErr(rec.stmt))]
  /\ UNCHANGED <<cfg, cn, db, arrivals, faults>>

\* ---- routes/cookieConsents.js: the blogs router ----
\* setAppUser(db, userId): set_config('app.user_id', $1, true) through pool.query.
\* The statement is its own transaction on whichever connection the pool
\* picks; a failure is ignored.  Then the title / content check.
SetAppUser(r) ==
  /\ rq[r].pc = "set_app_user"
  /\ PoolReady
  /\ LET after(rec) == IF rec.input.hasName THEN [rec EXCEPT !.pc = "connect"]
                       ELSE Reply(rec, 400, "title_and_content_required")
     IN \/ /\ cn' = [cn EXCEPT ![FirstIdle] = EndTx([@ EXCEPT !.user_id = rq[r].user.id])]
           /\ rq' = [rq EXCEPT ![r] = after(PoolIssue(@, "set_config app.user_id", TRUE))]
           /\ UNCHANGED faults
        \/ /\ CanFault
           /\ rq' = [rq EXCEPT ![r] = after(PoolIssue(@, "set_config app.user_id", FALSE))]
           /\ faults' = faults + 1
           /\ UNCHANGED cn
  /\ UNCHANGED <<cfg, db, arrivals>>

\* while (true) { SELECT 1 FROM blogs WHERE slug = $1; if none break; slug = base-count }
\* the blogs of one title carry the slugs base, base-1, base-2, ...: tries
\* counts the slugs found taken so far
FnSelectBlogSlug(r) ==
  /\ AtStmt(r, "SELECT blog slug")
  /\ LET rec == Issue(rq[r], "SELECT blog slug", TRUE) IN
       rq' = [rq EXCEPT ![r] = IF rec.tries < db.blogs THEN [rec EXCEPT !.tries = @ + 1]
                               ELSE Advance(rec, "-")]
  /\ UNCHANGED <<cfg, cn, db, arrivals, faults>>

\* INSERT INTO blogs ... is_published false ... RETURNING ...; return r.rows[0]
FnInsertBlog(r) ==
  /\ AtStmt(r, "INSERT blogs")
  /\ rq' = [rq EXCEPT ![r] = Advance(Issue(@, "INSERT blogs", TRUE), "blog")]
  /\ cn' = [cn EXCEPT ![rq[r].conn].w.insBlog = 1]
  /\ UNCHANGED <<cfg, db, arrivals, faults>>

\* DELETE FROM blogs WHERE id=$1 RETURNING id; no row -> throw not_found (404)
FnDeleteBlog(r) ==
  /\ AtStmt(r, "DELETE blogs")
  /\ \A c \in Conn \ {rq[r].conn} : cn[c].w.delBlog = 0
  /\ LET rec == Issue(rq[r], "DELETE blogs", TRUE) IN
       IF db.blogs = 0
         THEN /\ rq' = [rq EXCEPT ![r] = FnThrow(rec, NotFoundErr)]
              /\ UNCHANGED cn
         ELSE /\ rq' = [rq EXCEPT ![r] = Advance(rec, "true")]
              /\ cn' = [cn EXCEPT ![rec.conn].w.delBlog = 1]
  /\ UNCHANGED <<cfg, db, arrivals, faults>>

\* POST /:id/publish: db.query('UPDATE blogs SET is_published=$1 ... RETURNING ...')
Publish(r) ==
  /\ rq[r].pc = "publish"
  /\ PoolReady
  /\ \/ /\ IF db.blogs = 0
             THEN /\ rq' = [rq EXCEPT ![r] =
                              Reply(PoolIssue(@, "UPDATE blogs", TRUE), 404, "not_found")]
                  /\ UNCHANGED db
             ELSE /\ rq' = [rq EXCEPT ![r] =
                              Reply(PoolIssue(@, "UPDATE blogs", TRUE), 200, "ok")]
                  /\ db' = [db EXCEPT !.published = 1]
        /\ UNCHANGED faults
     \/ /\ CanFault
        /\ rq' = [rq EXCEPT ![r] = Reply(PoolIssue(@, "UPDATE blogs", FALSE), 500, "server_error")]
        /\ faults' = faults + 1
        /\ UNCHANGED db
  /\ UNCHANGED <<cfg, cn, arrivals>>

\* ---- routes/visitors.js: POST /identify ----
\* getClient(): const client = await pool.connect().  When it rejects, the
\* handler's catch finds client null and answers 500.
VisConnect(r) ==
  /\ rq[r].pc = "vis_connect"
  /\ \/ /\ PoolReady
        /\ cn' = [cn EXCEPT ![FirstIdle].owner = r]
        /\ rq' = [rq EXCEPT ![r] =
                    [@ EXCEPT !.pc = IF sessionGuard THEN "vis_guard" ELSE "vis_begin",
                              !.conn = FirstIdle, !.acquired = @ + 1]]
        /\ UNCHANGED faults
     \/ /\ PoolReady /\ ~rq[r].waited /\ CanFault
        /\ rq' = [rq EXCEPT ![r] = Reply([@ EXCEPT !.err = ConnectErr], 500, "server_error")]
        /\ faults' = faults + 1
        /\ UNCHANGED cn
  /\ UNCHANGED <<cfg, db, arrivals>>

\* getClient(): SET LOCAL app.is_backend = '1', issued before BEGIN; a failure is
\* ignored.  SET LOCAL takes effect only inside a transaction block; outside
\* one the server warns and sets nothing.
VisGuard(r) ==
  /\ rq[r].pc = "vis_guard"
  /\ \/ /\ rq' = [rq EXCEPT ![r] =
                    [Issue(@, "SET LOCAL app.is_backend", TRUE) EXCEPT !.pc = "vis_begin"]]
        /\ cn' = [cn EXCEPT ![rq[r].conn].guard = cn[rq[r].conn].tx]
        /\ UNCHANGED faults
     \/ /\ CanFault
        /\ rq' = [rq EXCEPT ![r] =
                    [Issue(@, "SET LOCAL app.is_backend", FALSE) EXCEPT !.pc = "vis_begin"]]
        /\ faults' = faults + 1
        /\ UNCHANGED cn
  /\ UNCHANGED <<cfg, db, arrivals>>

\* variant: the catch answers without rolling back or releasing
VisThrow_Abandon(rec, e) == Reply([rec EXCEPT !.err = e, !.orig = e], 500, "server_error")
\* a statement of the visitors transaction rejects: catch { ROLLBACK; release; ... }
VisThrow(rec, e) == [rec EXCEPT !.pc = "vis_rollback", !.err = e, !.orig = e]

AfterVisitor_Reconnect(rec) == "vis_connect"

\* the statement after the visitor row is settled: /event goes on to its
\* analytics insert, /identify to COMMIT
AfterVisitor(rec) == IF rec.route = "vis_event" THEN "vis_analytics" ELSE "vis_commit"

\* resolveVisitorIdWithClient: await client.query('BEGIN'); for a UUID, the
\* BEGIN of /event itself, followed by its check of the visitor row
VisBegin(r) ==
  /\ rq[r].pc = "vis_begin"
  /\ \/ /\ cn' = [cn EXCEPT ![rq[r].conn].tx = TRUE]
        /\ rq' = [rq EXCEPT ![r] =
                    [Issue(@, "BEGIN", TRUE) EXCEPT
                       !.pc = IF rq[r].input.sid = "uuid" THEN "vis_check" ELSE "vis_select"]]
        /\ UNCHANGED faults
     \/ /\ CanFault
        /\ rq' = [rq EXCEPT ![r] = VisThrow(Issue(@, "BEGIN", FALSE), QueryErr("BEGIN"))]
        /\ faults' = faults + 1
        /\ UNCHANGED cn
  /\ UNCHANGED <<cfg, db, arrivals>>

\* SELECT ... FROM visitors WHERE session_id = $1 LIMIT 1 FOR UPDATE: waits for
\* the row lock another transaction holds, then locks the row it finds
VisSelect(r) ==
  /\ rq[r].pc = "vis_select"
  /\ \/ /\ \A c \in Conn \ {rq[r].conn} : cn[c].w.lockVis = 0
        /\ IF db.visitors > 0
             THEN /\ cn' = [cn EXCEPT ![rq[r].conn].w.lockVis = 1]
                  /\ rq' = [rq EXCEPT ![r] =
                              [Issue(@, "SELECT visitors", TRUE) EXCEPT !.pc = "vis_update"]]
             ELSE /\ UNCHANGED cn
                  /\ rq' = [rq EXCEPT ![r] =
                              [Issue(@, "SELECT visitors", TRUE) EXCEPT !.pc = "vis_insert"]]
        /\ UNCHANGED faults
     \/ /\ CanFault
        /\ rq' = [rq EXCEPT ![r] =
                    VisThrow(Issue(@, "SELECT visitors", FALSE), QueryErr("SELECT visitors"))]
        /\ faults' = faults + 1
        /\ UNCHANGED cn
  /\ UNCHANGED <<cfg, db, arrivals>>

\* UPDATE visitors SET last_seen = now(), ... WHERE id = $4 RETURNING id
VisUpdate(r) ==
  /\ rq[r].pc = "vis_update"
  /\ \/ /\ rq' = [rq EXCEPT ![r] =
                    [Issue(@, "UPDATE visitors", TRUE) EXCEPT !.pc = AfterVisitor(rq[r]),
                                                              !.fnValue = "visitor"]]
        /\ UNCHANGED faults
     \/ /\ CanFault
        /\ rq' = [rq EXCEPT ![r] =
                    VisThrow(Issue(@, "UPDATE visitors", FALSE), QueryErr("UPDATE visitors"))]
        /\ faults' = faults + 1
  /\ UNCHANGED <<cfg, cn, db, arrivals>>

\* INSERT INTO visitors (session_id, ...) VALUES (...) RETURNING id.  Under a
\* unique index on session_id the insert waits for an open transaction that
\* inserted the same session_id and fails with 23505 when a committed row has it.
VisInsert(r) ==
  /\ rq[r].pc = "vis_insert"
  /\ LET unique == "visitors.session_id" \in schema IN
       \/ /\ unique => \A c \in Conn \ {rq[r].conn} : cn[c].w.insVis = 0
          /\ IF unique /\ db.visitors > 0
               THEN /\ rq' = [rq EXCEPT ![r] = VisThrow(Issue(@, "INSERT visitors", FALSE),
                                                       UniqueViolation("INSERT visitors"))]
                    /\ UNCHANGED cn
               ELSE /\ cn' = [cn EXCEPT ![rq[r].conn].w.insVis = 1]
                    /\ rq' = [rq EXCEPT ![r] =
                                [Issue(@, "INSERT visitors", TRUE) EXCEPT
                                   !.pc = AfterVisitor(rq[r]), !.fnValue = "visitor"]]
          /\ UNCHANGED faults
       \/ /\ CanFault
          /\ rq' = [rq EXCEPT ![r] =
                      VisThrow(Issue(@, "INSERT visitors", FALSE), QueryErr("INSERT visitors"))]
          /\ faults' = faults + 1
          /\ UNCHANGED cn
  /\ UNCHANGED <<cfg, db, arrivals>>

\* /event with a UUID: SELECT id FROM visitors WHERE id = $1; no row -> the
\* minimal visitor row is inserted first
VisCheck(r) ==
  /\ rq[r].pc = "vis_check"
  /\ \/ /\ rq' = [rq EXCEPT ![r] =
                    [Issue(@, "SELECT visitor id", TRUE) EXCEPT
                       !.pc = IF db.uuidVisitors > 0 THEN "vis_analytics" ELSE "vis_insert_min",
                       !.fnValue = "visitor"]]
        /\ UNCHANGED faults
     \/ /\ CanFault
        /\ rq' = [rq EXCEPT ![r] =
                    VisThrow(Issue(@, "SELECT visitor id", FALSE), QueryErr("SELECT visitor id"))]
        /\ faults' = faults + 1
  /\ UNCHANGED <<cfg, cn, db, arrivals>>

\* INSERT INTO visitors (id, session_id, ...) VALUES ($1, NULL, ...): id is the
\* primary key, so the insert waits for an open transaction that inserted the
\* same id and fails with 23505 when a committed row has it
VisInsertMinimal(r) ==
  /\ rq[r].pc = "vis_insert_min"
  /\ \/ /\ \A c \in Conn \ {rq[r].conn} : cn[c].w.insUuid = 0
        /\ IF db.uuidVisitors > 0
             THEN /\ rq' = [rq EXCEPT ![r] = VisThrow(Issue(@, "INSERT visitor id", FALSE),
                                                     UniqueViolation("INSERT visitor id"))]
                  /\ UNCHANGED cn
             ELSE /\ cn' = [cn EXCEPT ![rq[r].conn].w.insUuid = 1]
                  /\ rq' = [rq EXCEPT ![r] =
                              [Issue(@, "INSERT visitor id", TRUE) EXCEPT !.pc = "vis_analytics"]]
        /\ UNCHANGED faults
     \/ /\ CanFault
        /\ rq' = [rq EXCEPT ![r] =
                    VisThrow(Issue(@, "INSERT visitor id", FALSE), QueryErr("INSERT visitor id"))]
        /\ faults' = faults + 1
        /\ UNCHANGED cn
  /\ UNCHANGED <<cfg, db, arrivals>>

\* INSERT INTO analytics_events (visitor_id, event_type, event_props)
VisAnalytics(r) ==
  /\ rq[r].pc = "vis_analytics"
  /\ \/ /\ cn' = [cn EXCEPT ![rq[r].conn].w.insEvt = 1]
        /\ rq' = [rq EXCEPT ![r] =
                    [Issue(@, "INSERT analytics_events", TRUE) EXCEPT !.pc = "vis_commit"]]
        /\ UNCHANGED faults
     \/ /\ CanFault
        /\ rq' = [rq EXCEPT ![r] = VisThrow(Issue(@, "INSERT analytics_events", FALSE),
                                           QueryErr("INSERT analytics_events"))]
        /\ faults' = faults + 1
        /\ UNCHANGED cn
  /\ UNCHANGED <<cfg, db, arrivals>>

\* the handler: await client.query('COMMIT'); client.release();
VisCommit(r) ==
  /\ rq[r].pc = "vis_commit"
  /\ \/ /\ db' = ApplyWrites(db, cn[rq[r].conn].w)
        /\ rq' = [rq EXCEPT ![r] = [Issue(@, "COMMIT", TRUE) EXCEPT !.pc = "vis_release"]]
        /\ UNCHANGED faults
     \/ /\ CanFault
        /\ rq' = [rq EXCEPT ![r] = VisThrow(Issue(@, "COMMIT", FALSE), QueryErr("COMMIT"))]
        /\ faults' = faults + 1
        /\ UNCHANGED db
  /\ cn' = [cn EXCEPT ![rq[r].conn] = EndTx(@)]
  /\ UNCHANGED <<cfg, arrivals>>

\* variant: what the transaction did before the error is kept
VisRollback_Keep(r) ==
  /\ rq[r].pc = "vis_rollback"
  /\ db' = ApplyWrites(db, cn[rq[r].conn].w)
  /\ rq' = [rq EXCEPT ![r] = [Issue(@, "ROLLBACK", TRUE) EXCEPT !.pc = "vis_release"]]
  /\ cn' = [cn EXCEPT ![rq[r].conn] = EndTx(@)]
  /\ UNCHANGED <<cfg, arrivals, faults>>

\* catch: try { await client.query('ROLLBACK'); } catch (_) { }  client.release();
VisRollback(r) ==
  /\ rq[r].pc = "vis_rollback"
  /\ \/ /\ rq' = [rq EXCEPT ![r] = [Issue(@, "ROLLBACK", TRUE) EXCEPT !.pc = "vis_release"]]
        /\ UNCHANGED faults
     \/ /\ CanFault
        /\ rq' = [rq EXCEPT ![r] = [Issue(@, "ROLLBACK", FALSE) EXCEPT !.pc = "vis_release"]]
        /\ faults' = faults + 1
  /\ cn' = [cn EXCEPT ![rq[r].conn] = EndTx(@)]
  /\ UNCHANGED <<cfg, db, arrivals>>

\* client.release(), then the response: { visitor_id } or 500 server_error
VisRelease(r) ==
  /\ rq[r].pc = "vis_release"
  /\ cn' = [cn EXCEPT ![rq[r].conn].owner = "free"]
  /\ LET rec == [Issue(rq[r], "release", TRUE) EXCEPT !.releases = @ + 1] IN
       rq' = [rq EXCEPT ![r] =
                IF rec.err = NoErr THEN Reply([rec EXCEPT !.result = rec.fnValue], 200, "ok")
                ELSE Reply(rec, 500, "server_error")]
  /\ UNCHANGED <<cfg, db, arrivals, faults>>

\* ---- the handler after txRun settled: the response ----
TxResponse(rec) ==
  CASE rec.route = "cat_post" ->
         IF rec.err = NoErr THEN [status |-> 201, error |-> "ok"]
         ELSE IF rec.err.status = 409 THEN [status |-> 409, error |-> "slug_conflict"]
         ELSE [status |-> 500, error |-> "server_error"]
    [] rec.route \in {"prod_delete", "blog_delete"} ->
         IF rec.err = NoErr THEN [status |-> 200, error |-> "ok"]
         ELSE IF rec.err.status = 404 THEN [status |-> 404, error |-> "not_found"]
         ELSE [status |-> 500, error |-> "server_error"]
    [] rec.route = "users_post" ->
         IF rec.err = NoErr THEN [status |-> 201, error |-> "ok"]
         ELSE IF rec.err.code = "23505" THEN [status |-> 400, error |-> "email_exists"]
         ELSE [status |-> 500, error |-> "server_error"]
    [] OTHER ->
         IF rec.err = NoErr THEN [status |-> 201, error |-> "ok"]
         ELSE [status |-> 500, error |-> "server_error"]

Respond(r) ==
  /\ rq[r].pc = "settled"
  /\ rq' = [rq EXCEPT ![r] = Reply(@, TxResponse(@).status, TxResponse(@).error)]
  /\ UNCHANGED <<cfg, cn, db, arrivals, faults>>

\* ---- Spec: the requests run one after the other ----
Next ==
  \E r \in {"r1"} :
    \/ Arrive(r) \/ JwtGate(r) \/ Handler(r)
    \/ ValidateProduct(r) \/ Upload(r) \/ PoolClearPrimary(r) \/ PoolInsertImage(r)
    \/ InsertLead(r)
    \/ Connect(r) \/ Begin(r) \/ SetUserId(r) \/ SetUserRole(r)
    \/ FnSelectDup(r) \/ FnInsertCategory(r) \/ FnSelectCategory(r)
    \/ FnSetConfigUserId(r) \/ FnSetConfigUserRole(r) \/ FnDiag(r)
    \/ FnClearPrimary(r) \/ FnInsertImage(r) \/ FnDeleteProduct(r) \/ FnInsertUser(r)
    \/ FnStmtFail(r) \/ FnStmtAborted(r)
    \/ Commit(r) \/ Rollback(r) \/ Release(r) \/ Respond(r)

Spec == Init /\ [][Next]_vars

\* ---- SpecBlog: the blog routes, one request after the other ----
ArriveBlog(r) == ArriveWith(r, BlogRoutes, AuthKinds)

NextBlog ==
  \E r \in {"r1"} :
    \/ ArriveBlog(r) \/ JwtGate(r) \/ Handler(r)
    \/ SetAppUser(r) \/ Publish(r)
    \/ Connect(r) \/ Begin(r)
    \/ FnSelectBlogSlug(r) \/ FnInsertBlog(r) \/ FnDeleteBlog(r) \/ FnStmtFail(r)
    \/ Commit(r) \/ Rollback(r) \/ Release(r) \/ Respond(r)

SpecBlog == Init /\ [][NextBlog]_vars

\* ---- SpecConc: two requests at once create categories ----
ConcRoutes == {"cat_post"}
ConcAuths == {"editor"}
ArriveConc(r) == ArriveWith(r, ConcRoutes, ConcAuths)

InitConc ==
  /\ txImpl \in TxImpls
  /\ poolMax \in 1..MaxPool
  /\ slugUnique \in BOOLEAN
  /\ sessionGuard = FALSE
  /\ schema = {}
  /\ sse = NoSse
  /\ rq = [r \in Req |-> IdleReq]
  /\ cn = [c \in Conn |-> FreeConn]
  /\ db = EmptyDb
  /\ arrivals = 0
  /\ faults = 0

NextConc ==
  \E r \in Req :
    \/ ArriveConc(r) \/ JwtGate(r) \/ Handler(r)
    \/ Connect(r) \/ Begin(r)
    \/ FnSelectDup(r) \/ FnInsertCategory(r) \/ FnSelectCategory(r) \/ FnStmtFail(r)
    \/ Commit(r) \/ Rollback(r) \/ Release(r) \/ Respond(r)

SpecConc == InitConc /\ [][NextConc]_vars

\* ---- SpecVars: two requests at once, with and without identity, in
\* transactions that set session variables and in transactions that do not ----
\* an Admin creates product images and blogs while anonymous callers create users
ArriveVars(r) ==
  \/ r = "r1" /\ ArriveWith(r, {"pimg_post", "blog_post"}, {"admin"})
  \/ r = "r2" /\ ArriveWith(r, {"users_post"}, {"none"})

NextVars ==
  \E r \in Req :
    \/ ArriveVars(r) \/ JwtGate(r) \/ Handler(r)
    \/ ValidateProduct(r) \/ SetAppUser(r)
    \/ Connect(r) \/ Begin(r) \/ SetUserId(r) \/ SetUserRole(r)
    \/ FnSetConfigUserId(r) \/ FnSetConfigUserRole(r) \/ FnDiag(r)
    \/ FnClearPrimary(r) \/ FnInsertImage(r) \/ FnInsertUser(r)
    \/ FnSelectBlogSlug(r) \/ FnInsertBlog(r)
    \/ FnStmtFail(r) \/ FnStmtAborted(r)
    \/ Commit(r) \/ Rollback(r) \/ Release(r) \/ Respond(r)

\* the txRun that sets the variables it is handed; the category schema plays
\* no part here
InitVars == InitConc /\ txImpl = "transaction" /\ slugUnique

SpecVars == InitVars /\ [][NextVars]_vars

\* ---- SpecPool: two anonymous requests at once on a small pool, one kind
\* through txRun, the other through the visitors transaction; whatever can
\* run does run (the event loop, the database and the pool's timers go on) ----
ArrivePool(r) ==
  \/ r = "r1" /\ ArriveWith(r, {"users_post"}, {"none"})
  \/ r = "r2" /\ ArriveWith(r, {"vis_identify"}, {"none"})

InitPool ==
  /\ txImpl = "dbmw"
  /\ poolMax \in 1..MaxPool
  /\ slugUnique = TRUE
  /\ sessionGuard \in BOOLEAN
  /\ schema = {}
  /\ sse = NoSse
  /\ rq = [r \in Req |-> IdleReq]
  /\ cn = [c \in Conn |-> FreeConn]
  /\ db = EmptyDb
  /\ arrivals = 0
  /\ faults = 0

\* the steps of one request once it has arrived
StepPool(r) ==
  \/ JwtGate(r) \/ Handler(r)
  \/ PoolWait(r) \/ PoolTimeout(r)
  \/ Connect(r) \/ Begin(r) \/ FnInsertUser(r) \/ FnStmtFail(r)
  \/ Commit(r) \/ Rollback(r) \/ Release(r) \/ Respond(r)
  \/ VisConnect(r) \/ VisGuard(r) \/ VisBegin(r) \/ VisSelect(r)
  \/ VisUpdate(r) \/ VisInsert(r) \/ VisCommit(r) \/ VisRollback(r) \/ VisRelease(r)

NextPool == \E r \in Req : ArrivePool(r) \/ StepPool(r)

SpecPool == InitPool /\ [][NextPool]_vars /\ \A r \in Req : WF_vars(StepPool(r))

\* ---- SpecSite: two requests at once to the routes that keep no transaction
\* open: token refresh ----
SiteRoutes == {"auth_refresh"}
ArriveSite(r) == ArriveWith(r, SiteRoutes, {"none"})

NextSite ==
  \E r \in Req :
    \/ ArriveSite(r) \/ JwtGate(r) \/ Handler(r)
    \/ RefreshUser(r)

SpecSite == InitVars /\ [][NextSite]_vars

\* ---- SpecVis: two requests at once to the visitors routes, with and
\* without the session guard and the unique index on session_id ----
ArriveVis(r) ==
  \/ r = "r1" /\ ArriveWith(r, {"vis_event"}, {"none"})
  \/ r = "r2" /\ ArriveWith(r, {"vis_identify"}, {"none"})

InitVis ==
  /\ txImpl = "dbmw"
  /\ poolMax = MaxPool
  /\ slugUnique = TRUE
  /\ sessionGuard = TRUE
  /\ schema \in SUBSET {"visitors.session_id"}
  /\ sse = NoSse
  /\ rq = [r \in Req |-> IdleReq]
  /\ cn = [c \in Conn |-> FreeConn]
  /\ db = EmptyDb
  /\ arrivals = 0
  /\ faults = 0

NextVis ==
  \E r \in Req :
    \/ ArriveVis(r) \/ JwtGate(r) \/ Handler(r)
    \/ VisConnect(r) \/ VisGuard(r) \/ VisBegin(r) \/ VisSelect(r)
    \/ VisUpdate(r) \/ VisInsert(r) \/ VisCheck(r) \/ VisInsertMinimal(r)
    \/ VisAnalytics(r) \/ VisCommit(r) \/ VisRollback(r) \/ VisRelease(r)

SpecVis == InitVis /\ [][NextVis]_vars

\* ---- routes/products.js (the blog-likes router) POST /api/blogs/:id/like: pool queries, no transaction ----
\* the blog_likes rows of the blog are records [user, id]; id is the serial key
LikesOf(d, u) == {x \in d.blog_likes : x.user = u}

\* SELECT id FROM blog_likes WHERE blog_id = $1 AND user_id = $2 LIMIT 1
LikeSelect(r) ==
  /\ rq[r].pc = "like_select"
  /\ PoolReady
  /\ \/ /\ LikesOf(db, rq[r].user.id) = {}
        /\ rq' = [rq EXCEPT ![r] =
                    [PoolIssue(@, "SELECT blog_likes", TRUE) EXCEPT !.pc = "like_insert"]]
        /\ UNCHANGED faults
     \/ /\ \E x \in LikesOf(db, rq[r].user.id) :
             rq' = [rq EXCEPT ![r] =
                      [PoolIssue(@, "SELECT blog_likes", TRUE) EXCEPT
                         !.pc = "like_delete", !.row = x.id]]
        /\ UNCHANGED faults
     \/ /\ CanFault
        /\ rq' = [rq EXCEPT ![r] =
                    Reply(PoolIssue(@, "SELECT blog_likes", FALSE), 500, "server_error")]
        /\ faults' = faults + 1
  /\ UNCHANGED <<cfg, cn, db, arrivals>>

\* DELETE FROM blog_likes WHERE id = $1
LikeDelete(r) ==
  /\ rq[r].pc = "like_delete"
  /\ PoolReady
  /\ \/ /\ db' = [db EXCEPT !.blog_likes = {x \in @ : x.id # rq[r].row}]
        /\ rq' = [rq EXCEPT ![r] =
                    [PoolIssue(@, "DELETE blog_likes", TRUE) EXCEPT
                       !.pc = "like_count", !.result = "unliked"]]
        /\ UNCHANGED faults
     \/ /\ CanFault
        /\ rq' = [rq EXCEPT ![r] =
                    Reply(PoolIssue(@, "DELETE blog_likes", FALSE), 500, "server_error")]
        /\ faults' = faults + 1
        /\ UNCHANGED db
  /\ UNCHANGED <<cfg, cn, arrivals>>

\* INSERT INTO blog_likes (blog_id, user_id, created_at) VALUES ($1, $2, now());
\* a unique index on (blog_id, user_id), where the schema has one, rejects a
\* second row with 23505
LikeInsert(r) ==
  /\ rq[r].pc = "like_insert"
  /\ PoolReady
  /\ \/ /\ "blog_likes.blog_user" \in schema => LikesOf(db, rq[r].user.id) = {}
        /\ db' = [db EXCEPT !.blog_likes = @ \cup {[user |-> rq[r].user.id, id |-> db.likeSeq + 1]},
                            !.likeSeq = @ + 1]
        /\ rq' = [rq EXCEPT ![r] =
                    [PoolIssue(@, "INSERT blog_likes", TRUE) EXCEPT
                       !.pc = "like_count", !.result = "liked"]]
        /\ UNCHANGED faults
     \/ /\ "blog_likes.blog_user" \in schema
        /\ LikesOf(db, rq[r].user.id) # {}
        /\ rq' = [rq EXCEPT ![r] =
                    Reply([PoolIssue(@, "INSERT blog_likes", FALSE) EXCEPT
                             !.err = UniqueViolation("INSERT blog_likes")], 500, "server_error")]
        /\ UNCHANGED <<db, faults>>
     \/ /\ CanFault
        /\ rq' = [rq EXCEPT ![r] =
                    Reply(PoolIssue(@, "INSERT blog_likes", FALSE), 500, "server_error")]
        /\ faults' = faults + 1
        /\ UNCHANGED db
  /\ UNCHANGED <<cfg, cn, arrivals>>

\* SELECT count(*)::int as cnt FROM blog_likes WHERE blog_id = $1; sendOK(res, ...)
LikeCount(r) ==
  /\ rq[r].pc = "like_count"
  /\ PoolReady
  /\ \/ /\ rq' = [rq EXCEPT ![r] =
                    Reply([PoolIssue(@, "SELECT count", TRUE) EXCEPT
                             !.cnt = Cardinality(db.blog_likes)], 200, "ok")]
        /\ UNCHANGED faults
     \/ /\ CanFault
        /\ rq' = [rq EXCEPT ![r] =
                    Reply([PoolIssue(@, "SELECT count", FALSE) EXCEPT !.result = "-"],
                          500, "server_error")]
        /\ faults' = faults + 1
  /\ UNCHANGED <<cfg, cn, db, arrivals>>

\* an Admin and an ordinary user like and unlike one blog
ArriveLike(r) == ArriveWith(r, {"blog_like"}, {"admin", "user"})

InitLike ==
  /\ txImpl = "dbmw"
  /\ poolMax = MaxPool
  /\ slugUnique = TRUE
  /\ sessionGuard = FALSE
  /\ schema \in SUBSET {"blog_likes.blog_user"}
  /\ sse = NoSse
  /\ rq = [r \in Req |-> IdleReq]
  /\ cn = [c \in Conn |-> FreeConn]
  /\ db = EmptyDb
  /\ arrivals = 0
  /\ faults = 0

NextLike ==
  \E r \in Req :
    \/ ArriveLike(r) \/ JwtGate(r) \/ Handler(r)
    \/ LikeSelect(r) \/ LikeDelete(r) \/ LikeInsert(r) \/ LikeCount(r)

SpecLike == InitLike /\ [][NextLike]_vars

\* ---- server-sent events: lib/sse-bus.js, routes/dashboard.js, routes/events.js ----
\* A handler runs to completion, and Node emits a request's 'close' before it
\* runs the next handler or timer, so the close of a connection and its
\* listener are one step.
\* createClient(res): clients.add(client)
createClient(clients, k) == clients \cup {k}

removeClient_Keep(clients, k) == clients

\* removeClient(client): clients.delete(client)
removeClient(clients, k) == clients \ {k}

\* clientCount(): clients.size
clientCount == Cardinality(sse.clients)

\* res.write on every socket of ks: the events of a connection are counted up
\* to MaxEvents, and a write to a closed connection is remembered
Written(ks) ==
  [sse EXCEPT !.sent = [k \in Sockets |->
                          IF k \in ks /\ @[k] < MaxEvents THEN @[k] + 1 ELSE @[k]],
              !.stale = @ \/ \E k \in ks : sse.open[k] = "closed"]

\* GET /api/events/sse of dashboard.js (the sse-bus Set) and GET /sse of
\* events.js (its own Map): the client is registered, the keep-alive interval
\* started and the 'close' listener attached in the one handler run
SseAccept(k, route) ==
  /\ sse.open[k] = "closed"
  /\ sse' = [sse EXCEPT !.open[k] = route,
                        !.clients = IF route = "dashboard" THEN createClient(@, k) ELSE @,
                        !.map = IF route = "events" THEN @ \cup {k} ELSE @,
                        !.timers = @ \cup {k}]
  /\ UNCHANGED reqState

\* what both 'close' listeners do: clearInterval and the removal from the collection
Cleanup(k) ==
  [sse EXCEPT !.open[k] = "closed",
              !.timers = @ \ {k},
              !.clients = IF sse.open[k] = "dashboard" THEN removeClient(@, k) ELSE @,
              !.map = IF sse.open[k] = "events" THEN @ \ {k} ELSE @,
              !.sent[k] = 0,
              !.closes = IF @ < MaxSockets THEN @ + 1 ELSE @]

\* the connection closes: req.on('close', ...)
SseClose(k) ==
  /\ sse.open[k] # "closed"
  /\ sse' = Cleanup(k)
  /\ UNCHANGED reqState

\* events.js req.on('error', ...): cleanup() also ends the response; the
\* socket's 'close' follows and runs cleanup() once more
SseError(k) ==
  /\ sse.open[k] = "events"
  /\ sse' = [Cleanup(k) EXCEPT !.open[k] = "ending"]
  /\ UNCHANGED reqState

\* the keep-alive interval of a connection fires
SsePing(k) ==
  /\ k \in sse.timers
  /\ sse.sent[k] < MaxEvents
  /\ sse' = Written({k})
  /\ UNCHANGED reqState

\* POST /api/events/emit (dashboard.js): broadcast over the sse-bus Set;
\* POST /publish (events.js): broadcast over the Map
Broadcast(route) ==
  LET ks == IF route = "dashboard" THEN sse.clients ELSE sse.map IN
  /\ \E k \in ks : sse.sent[k] < MaxEvents
  /\ sse' = Written(ks)
  /\ UNCHANGED reqState

InitSse ==
  /\ txImpl = "dbmw"
  /\ poolMax = MaxPool
  /\ slugUnique = TRUE
  /\ sessionGuard = FALSE
  /\ schema = {}
  /\ sse = NoSse
  /\ rq = [r \in Req |-> IdleReq]
  /\ cn = [c \in Conn |-> FreeConn]
  /\ db = EmptyDb
  /\ arrivals = 0
  /\ faults = 0

NextSse ==
  \/ \E k \in Sockets, route \in {"dashboard", "events"} : SseAccept(k, route)
  \/ \E k \in Sockets : SseClose(k) \/ SseError(k) \/ SsePing(k)
  \/ \E route \in {"dashboard", "events"} : Broadcast(route)

SpecSse == InitSse /\ [][NextSse]_vars

\* ---- units of work that hold a connection: a product image and a visitor event ----
\* an Admin creates a product image (a pool query, then req.txRun) while an
\* anonymous caller posts a visitor event
ArriveHold(r) ==
  \/ r = "r1" /\ ArriveWith(r, {"pimg_post"}, {"admin"})
  \/ r = "r2" /\ ArriveWith(r, {"vis_event"}, {"none"})

StepHold(r) ==
  \/ JwtGate(r) \/ Handler(r) \/ ValidateProduct(r)
  \/ PoolWait(r) \/ PoolTimeout(r)
  \/ Connect(r) \/ Begin(r)
  \/ FnSetConfigUserId(r) \/ FnSetConfigUserRole(r) \/ FnDiag(r)
  \/ FnClearPrimary(r) \/ FnInsertImage(r)
  \/ FnStmtFail(r) \/ FnStmtAborted(r)
  \/ Commit(r) \/ Rollback(r) \/ Release(r) \/ Respond(r)
  \/ VisConnect(r) \/ VisGuard(r) \/ VisBegin(r) \/ VisSelect(r)
  \/ VisUpdate(r) \/ VisInsert(r) \/ VisCheck(r) \/ VisInsertMinimal(r)
  \/ VisAnalytics(r) \/ VisCommit(r) \/ VisRollback(r) \/ VisRelease(r)

NextHold == \E r \in Req : ArriveHold(r) \/ StepHold(r)

\* DB_USE_SESSION_GUARD is set; one statement or acquisition can fail
InitHold ==
  /\ txImpl = "dbmw"
  /\ poolMax \in 1..MaxPool
  /\ slugUnique = TRUE
  /\ sessionGuard = TRUE
  /\ schema = {}
  /\ sse = NoSse
  /\ rq = [r \in Req |-> IdleReq]
  /\ cn = [c \in Conn |-> FreeConn]
  /\ db = EmptyDb
  /\ arrivals = 0
  /\ faults = MaxFaults - 1

SpecHold == InitHold /\ [][NextHold]_vars

\* ---- product images: two concurrent creates of one product's images ----
\* an Admin posts image rows through req.txRun and through the upload route's
\* pool queries at the same time
ArriveImg(r) == ArriveWith(r, {"pimg_post", "pimg_upload"}, {"admin"})

NextImg ==
  \E r \in Req :
    \/ ArriveImg(r) \/ JwtGate(r) \/ Handler(r)
    \/ ValidateProduct(r) \/ Upload(r) \/ PoolClearPrimary(r) \/ PoolInsertImage(r)
    \/ Connect(r) \/ Begin(r) \/ SetUserId(r) \/ SetUserRole(r)
    \/ FnSetConfigUserId(r) \/ FnSetConfigUserRole(r) \/ FnDiag(r)
    \/ FnClearPrimary(r) \/ FnInsertImage(r)
    \/ FnStmtFail(r) \/ FnStmtAborted(r)
    \/ Commit(r) \/ Rollback(r) \/ Release(r) \/ Respond(r)

SpecImg == InitVars /\ [][NextImg]_vars

\* ---- reading the statement log ----
Has(rec, q) == \E i \in DOMAIN rec.log : rec.log[i].q = q
HasFailed(rec, q) == \E i \in DOMAIN rec.log : rec.log[i].q = q /\ ~rec.log[i].ok
Count(rec, q) == Cardinality({i \in DOMAIN rec.log : rec.log[i].q = q})
ClientLog(rec) == SelectSeq(rec.log, LAMBDA e : e.c # NoConn)
SetStmts == {"SET LOCAL app.user_id", "SET LOCAL app.user_role",
             "set_config app.user_id", "set_config app.user_role"}
Settled(r) == rq[r].pc \in {"settled", "done"}

\* ---- C1 ----
\* C1: every txRun call that acquired a client has released it exactly once
\* when its promise settles, whatever path it took (COMMIT, failed BEGIN, failed
\* SET LOCAL, fn rejecting, failed COMMIT, failed ROLLBACK); the pool's in-use
\* count is the number of txRun calls between connect and release, so it is
\* back at zero whenever no call is in progress.
C1_ReleasedExactlyOnce ==
  /\ \A r \in Req :
       /\ rq[r].releases <= rq[r].acquired
       /\ Count(rq[r], "release") = rq[r].releases
       /\ Settled(r) => rq[r].releases = rq[r].acquired
  /\ InUse = Cardinality({r \in Req : rq[r].acquired > rq[r].releases})

\* a second request has completed after a call whose ROLLBACK itself failed
C1_Witness ==
  \E r \in Req :
    /\ rq[r].pc = "done" /\ rq[r].acquired = 1 /\ rq[r].releases = 1
    /\ HasFailed(rq[r], "ROLLBACK")
    /\ arrivals >= 2 /\ InUse = 0

\* ---- C2 ----
\* C2: when a route calls req.txRun(fn) with fn alone and req.user is present,
\* app.user_id and app.user_role are both set on the connection by the time fn
\* issues a business statement.
C2_SessionVarsSetForFnOnlyCall ==
  \A r \in Req :
    ( /\ rq[r].pc = "fn"
      /\ rq[r].user # NoUser
      /\ ~TxOpts(rq[r]).userId /\ ~TxOpts(rq[r]).userRole
      /\ rq[r].stmt \notin SetStmts )
    => /\ cn[rq[r].conn].user_id = rq[r].user.id
       /\ cn[rq[r].conn].user_role = RoleStr(rq[r].user.role)

C4_OriginalErrorSurvives ==
  \A r \in Req :
    (Settled(r) /\ HasFailed(rq[r], "ROLLBACK")) =>
      rq[r].err = rq[r].orig /\ rq[r].err # RollbackErr

\* ---- C5 ----
\* C5: when fn rejects with e, ROLLBACK is issued on the connection, COMMIT is
\* not, fn ran once, txRun rejects with e itself and the route maps e's status
\* (404, 409) into the response.
C5_FnErrorPropagates ==
  \A r \in Req :
    (Settled(r) /\ rq[r].fnErr # NoErr) =>
      /\ \E i \in DOMAIN rq[r].log :
           rq[r].log[i].q = "ROLLBACK" /\ rq[r].log[i].c = rq[r].conn
      /\ ~Has(rq[r], "COMMIT")
      /\ rq[r].fnCalls = 1
      /\ rq[r].err = rq[r].fnErr
      /\ (rq[r].pc = "done" /\ rq[r].fnErr.status \in {404, 409})
           => rq[r].status = rq[r].fnErr.status

\* ---- C6 ----
\* the place of a statement in txRun's order
Rank(q) ==
  CASE q = "BEGIN" -> 0
    [] q \in {"SET LOCAL app.user_id", "SET LOCAL app.user_role"} -> 1
    [] q = "COMMIT" -> 3
    [] q = "release" -> 4
    [] OTHER -> 2

\* C6: a txRun call that resolved issued, all on its one client, BEGIN first,
\* then the SET LOCALs, then fn's statements, then one successful COMMIT, then
\* the release and nothing after it; fn ran once and txRun resolved with the
\* value fn returned.
C6_SuccessPathOrder ==
  \A r \in Req :
    (Settled(r) /\ rq[r].acquired = 1 /\ rq[r].err = NoErr) =>
      LET L == ClientLog(rq[r]) IN
        /\ Len(L) >= 3
        /\ L[1].q = "BEGIN" /\ L[1].ok
        /\ L[Len(L) - 1].q = "COMMIT" /\ L[Len(L) - 1].ok
        /\ L[Len(L)].q = "release"
        /\ \A i, j \in DOMAIN L :
             i < j => /\ Rank(L[i].q) <= Rank(L[j].q)
                      /\ Rank(L[i].q) \in {0, 3, 4} => L[i].q # L[j].q
        /\ \A i \in DOMAIN L : L[i].c = rq[r].conn
        /\ rq[r].fnCalls = 1
        /\ rq[r].result = rq[r].fnValue /\ rq[r].fnValue # "-"

C6_Witness ==
  \E r \in Req :
    /\ rq[r].pc = "done" /\ rq[r].status = 201 /\ rq[r].route = "pimg_post"
    /\ Has(rq[r], "SET LOCAL app.user_role") /\ Has(rq[r], "UPDATE product_images")
    /\ rq[r].result = "image"

\* ---- C7 ----
\* C7: after a unit of work that failed, the committed tables are what they
\* were when it began; creating a primary product image whose INSERT fails
\* leaves the other images' is_primary flags as they were.
C7_FailedWorkLeavesNoWrites ==
  \A r \in Req :
    (rq[r].pc = "done" /\ rq[r].handlerRan /\ rq[r].status >= 400) => db = rq[r].db0

\* ---- C8 ----
\* C8: a request without Authorization header has no req.user, none of its
\* statements sets app.user_id or app.user_role, and the connection its
\* transaction runs on has both unset.
C8_AnonymousSetsNothing ==
  \A r \in Req :
    rq[r].auth = "none" =>
      /\ rq[r].user = NoUser
      /\ \A i \in DOMAIN rq[r].log : rq[r].log[i].q \notin SetStmts
      /\ rq[r].acquired > rq[r].releases =>
           /\ cn[rq[r].conn].user_id = "unset"
           /\ cn[rq[r].conn].user_role = "unset"

\* an anonymous request ran a transaction to its COMMIT
C8_Witness ==
  \E r \in Req :
    /\ rq[r].auth = "none" /\ rq[r].route = "users_post"
    /\ rq[r].pc = "done" /\ rq[r].status = 201 /\ Has(rq[r], "COMMIT")

\* ---- C9 ----
\* C9: the categories table never holds two rows with one slug, and of two
\* requests creating the same new slug, with no statement failing, exactly one
\* is answered 201 and the other 409.
C9_OneCreatedOneConflict ==
  /\ \A s \in Slugs : db.categories[s] <= 1
  /\ ( /\ faults = 0 /\ arrivals = 2
       /\ \A r \in Req : rq[r].pc = "done" /\ rq[r].route = "cat_post" /\ NameGiven(rq[r].input)
       /\ rq["r1"].slug = rq["r2"].slug )
     => {rq["r1"].status, rq["r2"].status} = {201, 409}

\* ---- C10 ----
\* routes whose gate admits Admin and Editor at most
Gated(rec) ==
  \/ rec.route \in {"cat_post", "prod_delete"}
  \/ /\ rec.route = "perm"
     /\ rec.input.perm \in PermNames
     /\ PERMISSIONS[rec.input.perm] \subseteq {ROLE_ADMIN, ROLE_EDITOR}

\* C10 (as claimed): a request without identity to such a route is answered
\* 403 forbidden, with no connection acquired and no query issued.
C10_GuestGets403 ==
  \A r \in Req :
    (rq[r].auth = "none" /\ Gated(rq[r]) /\ rq[r].pc = "done") =>
      /\ rq[r].status = 403 /\ rq[r].error = "forbidden"
      /\ rq[r].acquired = 0 /\ rq[r].log = <<>>

\* C10 (amended): the gate answers it before any database access:
\* requireEditorOrAdmin with 401 unauthorized, hasPermission with 403 not_allowed.
C10_GuestRejectedBeforeDb ==
  \A r \in Req :
    (rq[r].auth = "none" /\ Gated(rq[r]) /\ rq[r].handlerRan) =>
      /\ rq[r].pc = "done"
      /\ rq[r].acquired = 0 /\ rq[r].log = <<>>
      /\ \/ /\ rq[r].route \in {"cat_post", "prod_delete"}
            /\ rq[r].status = 401 /\ rq[r].error = "unauthorized"
         \/ /\ rq[r].route = "perm"
            /\ rq[r].status = 403 /\ rq[r].error = "not_allowed"

C10_Witness ==
  \E r \in Req :
    /\ rq[r].auth = "none" /\ rq[r].route = "prod_delete"
    /\ rq[r].pc = "done" /\ rq[r].status = 401 /\ rq[r].acquired = 0

\* ---- C11 ----
\* the first statement that failed on the transaction's client set a session variable
SetFailedFirst(rec) ==
  LET L == ClientLog(rec) IN
    \E i \in DOMAIN L :
      /\ L[i].q \in SetStmts /\ ~L[i].ok
      /\ \A j \in 1..(i - 1) : L[j].ok

\* C11: a failing statement that sets app.user_id or app.user_role does not
\* fail the unit of work: fn still runs, and neither that failure nor the
\* aborted transaction it leaves behind is the error txRun rejects with.
C11_SetFailureNonFatal ==
  \A r \in Req :
    (Settled(r) /\ SetFailedFirst(rq[r])) =>
      /\ rq[r].fnCalls = 1
      /\ rq[r].orig.kind \notin SetStmts
      /\ rq[r].orig.code # "25P02"

\* ---- C12 ----
\* the statements that set one session variable, and how many of them a
\* request's transaction has completed
SettersOf(var) ==
  IF var = "app.user_id" THEN {"SET LOCAL app.user_id", "set_config app.user_id"}
  ELSE {"SET LOCAL app.user_role", "set_config app.user_role"}
SetCount(rec, var) ==
  Cardinality({i \in DOMAIN rec.log : rec.log[i].ok /\ rec.log[i].q \in SettersOf(var)})

\* C12: within one transaction app.user_id is set at most once and
\* app.user_role is set at most once.
C12_SetAtMostOnce ==
  \A r \in Req :
    /\ SetCount(rq[r], "app.user_id") <= 1
    /\ SetCount(rq[r], "app.user_role") <= 1

\* ---- C13 ----
\* C13: session variables never outlive their transaction and never show on
\* another unit of work: a connection that is idle in the pool, or on which no
\* transaction is open, has both unset; a connection held by a request carries
\* nothing but that request's own identity (nothing at all for an anonymous
\* request); and what a transaction reads back with current_setting is its own.
C13_NoSessionVarLeak ==
  /\ \A c \in Conn :
       (cn[c].owner = "free" \/ ~cn[c].tx) =>
         cn[c].user_id = "unset" /\ cn[c].user_role = "unset"
  /\ \A r \in Req :
       /\ rq[r].acquired > rq[r].releases =>
            /\ cn[rq[r].conn].user_id \in {"unset", rq[r].user.id}
            /\ cn[rq[r].conn].user_role \in {"unset", RoleStr(rq[r].user.role)}
            /\ rq[r].user = NoUser => cn[rq[r].conn].user_role = "unset"
       /\ rq[r].seen.id \in {"unset", rq[r].user.id}
       /\ rq[r].seen.role \in {"unset", RoleStr(rq[r].user.role)}

\* an anonymous request runs its transaction on the very connection on which
\* an earlier, completed request had set the variables
C13_Witness ==
  \E r, q \in Req :
    /\ r # q
    /\ rq[r].auth = "none" /\ rq[r].pc = "fn"
    /\ rq[q].pc = "done" /\ rq[q].user # NoUser
    /\ \E i \in DOMAIN rq[q].log :
         /\ rq[q].log[i].q \in SetStmts /\ rq[q].log[i].ok
         /\ rq[q].log[i].c = rq[r].conn

\* ---- C14 ----
\* a request is between pool.connect() resolving and client.release()
Holding(r) == rq[r].acquired > rq[r].releases

\* the step appends a statement issued by r on a checked-out connection
UsesClient(r) ==
  /\ Len(rq'[r].log) = Len(rq[r].log) + 1
  /\ rq'[r].log[Len(rq'[r].log)].c # NoConn

\* C14: no two in-flight units of work (txRun calls or visitors transactions)
\* hold the same pooled connection at the same time, the connection a unit of
\* work holds is checked out to it and to nobody else, and every statement a
\* unit of work issues on a client goes to the connection it holds, from the
\* moment pool.connect() resolved until its release.
C14_ExclusiveConnection ==
  /\ [](\A r \in Req :
          Holding(r) =>
            /\ rq[r].conn \in 1..poolMax
            /\ cn[rq[r].conn].owner = r
            /\ \A s \in Req \ {r} : Holding(s) => rq[s].conn # rq[r].conn)
  /\ [][\A r \in Req :
          UsesClient(r) =>
            /\ Holding(r)
            /\ rq'[r].log[Len(rq'[r].log)].c = rq[r].conn
            /\ cn[rq[r].conn].owner = r
            /\ \A s \in Req \ {r} : Holding(s) => rq[s].conn # rq[r].conn]_vars

\* a txRun call and a visitors transaction are open at once, each on its own
\* connection
C14_Witness ==
  /\ Holding("r1") /\ Holding("r2")
  /\ rq["r1"].route = "users_post" /\ rq["r2"].route = "vis_identify"
  /\ cn[rq["r1"].conn].tx /\ cn[rq["r2"].conn].tx
  /\ Has(rq["r1"], "INSERT users") /\ Has(rq["r2"], "SELECT visitors")

\* ---- C15 ----
\* every connection of the pool is held by a unit of work in flight
Exhausted == \A c \in 1..poolMax : \E r \in Req : Holding(r) /\ rq[r].conn = c

\* C15: a unit of work that calls pool.connect() while all poolMax connections
\* are held waits; it never fails at once: its next step is to queue, and it is
\* rejected with the timeout error only after having queued and only while the
\* pool is still exhausted; having waited it either acquires a connection that
\* was released and runs to its response, or it fails with the acquisition
\* timeout; and no request waits in pool.connect() forever.
C15_BoundedWait ==
  /\ [](\A r \in Req :
          /\ rq[r].err = TimeoutErr => rq[r].waited /\ rq[r].acquired = 0
          /\ rq[r].waited /\ rq[r].pc = "done" /\ rq[r].acquired = 0
               => rq[r].err = TimeoutErr /\ rq[r].status = 500)
  /\ [][\A r \in Req :
          /\ rq[r].pc \in ConnectPcs /\ Exhausted /\ ~rq[r].waited /\ rq'[r] # rq[r]
               => rq'[r].pc \in ConnectPcs /\ rq'[r].waited /\ rq'[r].err = NoErr
          /\ rq[r].pc \in ConnectPcs /\ rq'[r].err = TimeoutErr => Exhausted
          /\ rq[r].pc \in ConnectPcs /\ rq[r].waited /\ rq'[r].acquired = 1
               => InUse < poolMax]_vars
  /\ \A r \in Req :
       (rq[r].pc \in ConnectPcs /\ Exhausted) ~> (rq[r].pc = "done")

\* a request that had to wait for the only connection got it after the other
\* request released it, and completed
C15_Witness ==
  \E r \in Req :
    /\ poolMax = 1 /\ rq[r].waited
    /\ rq[r].pc = "done" /\ rq[r].acquired = 1 /\ rq[r].releases = 1
    /\ rq[r].status \in {200, 201}
    /\ \E s \in Req \ {r} : rq[s].releases = 1

\* ---- C16 ----
\* "industrial-machinery"
IndustrialMachinerySlug ==
  <<"i", "n", "d", "u", "s", "t", "r", "i", "a", "l", "-",
    "m", "a", "c", "h", "i", "n", "e", "r", "y">>

\* the number of categories stored under a slug
Stored(d, slug) == IF slug \in DOMAIN d.categories THEN d.categories[slug] ELSE 0

\* the request of the scenario, answered: POST /api/categories by an Editor,
\* name "Industrial Machinery", no slug
ScenarioA(rec) ==
  /\ rec.pc = "done" /\ rec.route = "cat_post"
  /\ rec.user # NoUser /\ rec.user.role = ROLE_EDITOR
  /\ rec.input = [NoInput EXCEPT !.name = IndustrialMachinery]

\* C16: with no statement failing for outside reasons, POST /api/categories by
\* an Editor with name "Industrial Machinery" and no slug is answered 201 and
\* the category is stored under the slug "industrial-machinery" when no such
\* category exists; when the category exists already (the same request was
\* completed before) it is answered 409 slug_conflict and the tables are as
\* they were.
C16_ScenarioA ==
  \A r \in Req :
    ScenarioA(rq[r]) /\ faults = 0 =>
      IF Stored(rq[r].db0, IndustrialMachinerySlug) = 0
      THEN /\ rq[r].status = 201
           /\ rq[r].slug = IndustrialMachinerySlug
           /\ Stored(db, IndustrialMachinerySlug) = 1
      ELSE /\ rq[r].status = 409 /\ rq[r].error = "slug_conflict"
           /\ db = rq[r].db0

\* the repeated request has been answered 409
C16_Witness ==
  \E r \in Req :
    /\ ScenarioA(rq[r]) /\ faults = 0
    /\ Stored(rq[r].db0, IndustrialMachinerySlug) = 1
    /\ rq[r].status = 409

\* ---- C17 ----
\* the role hasPermission decides on: Guest for a request without req.user
RoleOf(rec) == IF rec.user = NoUser THEN ROLE_GUEST ELSE rec.user.role

\* C17: for every name registered in PERMISSIONS, a request that reached
\* hasPermission(name) went on to next() exactly when the caller's role, Guest
\* for a request without req.user, is in the set registered for the name; every
\* other such request was answered 403 and did not go on.
C17_AdmitIffRegistered ==
  \A r \in Req :
    (rq[r].route = "perm" /\ rq[r].handlerRan /\ rq[r].input.perm \in PermNames) =>
      /\ rq[r].pc = "done"
      /\ rq[r].error = "next" <=> RoleOf(rq[r]) \in PERMISSIONS[rq[r].input.perm]
      /\ rq[r].error # "next" => rq[r].status = 403
      /\ rq[r].error = "next" => rq[r].status = 0

\* a request without identity was let through by the capability that lists Guest
C17_Witness ==
  \E r \in Req :
    /\ rq[r].route = "perm" /\ rq[r].auth = "none" /\ rq[r].handlerRan
    /\ rq[r].input.perm = "blog.read" /\ rq[r].error = "next"

C19_BlogsAdminOnly ==
  \A r \in Req :
    (rq[r].route \in BlogRoutes /\ rq[r].handlerRan /\ RoleOf(rq[r]) # ROLE_ADMIN) =>
      /\ rq[r].pc = "done"
      /\ rq[r].status \in {401, 403}
      /\ rq[r].log = <<>>
      /\ db.blogs = rq[r].db0.blogs /\ db.published = rq[r].db0.published

\* ---- C20 ----
\* fn of a create request stopped on a uniqueness violation: the duplicate
\* found by the handler's own SELECT, or the database's 23505
UniquenessViolated(rec) ==
  /\ rec.route \in {"cat_post", "users_post"}
  /\ rec.fnErr # NoErr
  /\ rec.fnErr = SlugConflictErr \/ rec.fnErr.code = "23505"

\* C20: a create request that met a uniqueness violation (a duplicate category
\* slug, a duplicate email on POST /api/users) is answered 409, never 400 and
\* never 500.
C20_UniquenessIs409 ==
  \A r \in Req :
    (rq[r].pc = "done" /\ UniquenessViolated(rq[r]) /\ rq[r].err = rq[r].fnErr) =>
      rq[r].status = 409

\* ---- C21 ----
\* C21: refresh tokens are kept (hashed) in refresh_tokens and rotated: a
\* successful refresh stores the token it issues, and once a refresh with a
\* token has been answered 200, a refresh request presenting the same token
\* that is handled afterwards is not accepted.
C21_RefreshRotates ==
  /\ [](\A r \in Req :
          rq[r].route = "auth_refresh" /\ rq[r].pc = "done" /\ rq[r].status = 200
            => db.refresh_tokens # {})
  /\ [][\A r, q \in Req :
          ( /\ r # q
            /\ rq[q].route = "auth_refresh" /\ rq[q].pc = "done" /\ rq[q].status = 200
            /\ rq[r].route = "auth_refresh" /\ rq[r].pc = "handler"
            /\ rq[r].input.tok = rq[q].input.tok
            /\ rq'[r] # rq[r] )
          => rq'[r].pc = "done" /\ rq'[r].status = 401]_vars

\* ---- C22 ----
\* C22: in POST /identify and POST /event every client taken from the pool is
\* released exactly once by the time the request is answered, on every path
\* (success, a statement failing inside resolveVisitorIdWithClient, a
\* statement failing in the handler, COMMIT failing), and the last statement
\* issued on it before the release is a COMMIT that succeeded or a ROLLBACK;
\* no client goes back to the pool with a transaction open, and the clients
\* checked out are those of the requests still in progress.
C22_VisitorsClientEnded ==
  /\ \A r \in Req :
       rq[r].route \in VisitorRoutes =>
         /\ rq[r].releases <= rq[r].acquired /\ rq[r].acquired <= 1
         /\ Count(rq[r], "release") = rq[r].releases
         /\ rq[r].pc = "done" => rq[r].releases = rq[r].acquired
         /\ rq[r].releases = 1 =>
              LET n == Len(rq[r].log) IN
                /\ n >= 2 /\ rq[r].log[n].q = "release"
                /\ \/ rq[r].log[n-1].q = "COMMIT" /\ rq[r].log[n-1].ok
                   \/ rq[r].log[n-1].q = "ROLLBACK"
  /\ \A c \in Conn : cn[c].owner = "free" => ~cn[c].tx
  /\ InUse = Cardinality({r \in Req : Holding(r)})

\* POST /event was answered 500 after its COMMIT failed: the handler's catch
\* rolled back and released the client once
C22_Witness ==
  \E r \in Req :
    /\ rq[r].route = "vis_event" /\ rq[r].pc = "done" /\ rq[r].status = 500
    /\ HasFailed(rq[r], "COMMIT") /\ Has(rq[r], "ROLLBACK")
    /\ rq[r].acquired = 1 /\ rq[r].releases = 1

\* ---- C23 ----
\* the statement succeeded in the request's transaction
Did(rec, q) == \E i \in DOMAIN rec.log : rec.log[i].q = q /\ rec.log[i].ok

\* C23: in POST /event the visitor upsert (or the minimal visitor row) and the
\* analytics insert are one transaction on one connection: the tables change
\* only when a request's COMMIT succeeds, and then by everything the request
\* wrote, the analytics event included; writes wait on their connection inside
\* an open transaction until then; and a request whose analytics insert failed,
\* or which was not answered 200, has committed nothing.
C23_EventAtomic ==
  /\ [](\A c \in Conn :
          cn[c].w.insVis + cn[c].w.insUuid + cn[c].w.insEvt > 0 =>
            cn[c].tx /\ cn[c].owner # "free")
  /\ [](\A r \in Req :
          rq[r].route = "vis_event" =>
            /\ HasFailed(rq[r], "INSERT analytics_events") => ~Did(rq[r], "COMMIT")
            /\ rq[r].pc = "done" /\ rq[r].status # 200 => ~Did(rq[r], "COMMIT")
            /\ Did(rq[r], "COMMIT") => Did(rq[r], "INSERT analytics_events")
            /\ \A i \in DOMAIN rq[r].log : rq[r].log[i].c = rq[r].conn)
  /\ [][db' # db =>
          \E r \in Req :
            /\ rq[r].pc = "vis_commit" /\ rq'[r].pc = "vis_release"
            /\ db' = ApplyWrites(db, cn[rq[r].conn].w)
            /\ rq[r].route = "vis_event" =>
                 /\ db'.events = db.events + 1
                 /\ Did(rq[r], "INSERT visitors") => db'.visitors = db.visitors + 1
                 /\ Did(rq[r], "INSERT visitor id") => db'.uuidVisitors = 1]_vars

\* POST /event inserted a visitor row, its analytics insert failed, and it was
\* answered 500 with the tables as they were
C23_Witness ==
  \E r \in Req :
    /\ rq[r].route = "vis_event" /\ rq[r].pc = "done" /\ rq[r].status = 500
    /\ Did(rq[r], "INSERT visitors") /\ HasFailed(rq[r], "INSERT analytics_events")
    /\ db = EmptyDb

\* ---- C25 ----
\* C25: with DB_USE_SESSION_GUARD enabled, whenever a visitors request has its
\* transaction open on a client from getClient(), app.is_backend = '1' is in
\* effect on that connection, so the visitor and analytics statements run
\* under the guard.
C25_GuardInEffect ==
  \A r \in Req :
    ( /\ sessionGuard /\ rq[r].route \in VisitorRoutes
      /\ Holding(r) /\ cn[rq[r].conn].tx
      /\ Did(rq[r], "SET LOCAL app.is_backend") )
    => cn[rq[r].conn].guard

\* ---- C26 ----
\* C26: the visitors table never holds two rows for one session_id, and every
\* /identify or /event call for that session_id, no statement failing for
\* outside reasons, is answered 200 with the visitor's id.
C26_SessionUpsert ==
  /\ db.visitors <= 1
  /\ \A r \in Req :
       ( /\ rq[r].route \in VisitorRoutes /\ rq[r].input.sid = "s1"
         /\ rq[r].handlerRan /\ rq[r].pc = "done" /\ faults = 0 )
       => rq[r].status \in {200, 400} /\ (rq[r].status = 200 => rq[r].result = "visitor")

\* C24: after any interleaving of product-image create requests, through the
\* transactional or the non-transactional path, the product has at most one
\* image row with is_primary = true.
C24_AtMostOnePrimary == db.prim <= 1

\* C27: POST /api/blogs/:id/like is a toggle per (blog, user): blog_likes holds
\* at most one row per (blog, user); a call that meets no fault is answered
\* 200; the statement that answers 'liked' turns the caller's like from absent
\* to present, the one that answers 'unliked' from present to absent; and the
\* returned likes_count is the number of like rows of the blog.
LikeStep(r) ==
  /\ rq[r].route = "blog_like"
  /\ rq[r].pc \in {"like_insert", "like_delete"}
  /\ rq'[r].pc = "like_count"

C27_LikeToggle ==
  /\ [](\A u \in {"u1", "u2", "u3"} : Cardinality(LikesOf(db, u)) <= 1)
  /\ [](\A r \in Req :
          (rq[r].route = "blog_like" /\ rq[r].handlerRan /\ rq[r].pc = "done" /\ faults = 0)
          => rq[r].status = 200)
  /\ [][\A r \in Req :
          (rq[r].pc = "like_count" /\ rq'[r].status = 200)
          => rq'[r].cnt = Cardinality(db'.blog_likes)]_vars
  /\ [][\A r \in Req :
          LikeStep(r) =>
            /\ rq'[r].result = "liked" =>
                 LikesOf(db, rq[r].user.id) = {} /\ LikesOf(db', rq[r].user.id) # {}
            /\ rq'[r].result = "unliked" =>
                 LikesOf(db, rq[r].user.id) # {} /\ LikesOf(db', rq[r].user.id) = {}]_vars

\* C28: an SSE client is in the in-memory client collection exactly while its
\* connection is open, and so is its keep-alive timer; clientCount() is the
\* number of open connections of the sse-bus route; and no write of a ping or
\* a broadcast goes to a connection that has closed.
OpenOn(route) == {k \in Sockets : sse.open[k] = route}

OwnedBy(r) == {c \in Conn : cn[c].owner = r}

UsesPool(r) ==
  /\ Len(rq'[r].log) = Len(rq[r].log) + 1
  /\ rq'[r].log[Len(rq'[r].log)].c = NoConn

C29_OneConnectionEach ==
  /\ [](\A r \in Req :
          /\ Cardinality(OwnedBy(r)) <= 1
          /\ Holding(r) => ENABLED StepHold(r))
  /\ [][\A r \in Req :
          Holding(r) =>
            /\ rq'[r].acquired <= rq[r].acquired \/ rq'[r].pc = "gate"
            /\ rq'[r].waited = rq[r].waited \/ rq'[r].pc = "gate"
            /\ ~UsesPool(r)]_vars

\* both requests hold a connection of an exhausted pool, the image request
\* having run its pool query before it acquired its own
C29_Witness ==
  /\ Exhausted
  /\ \A r \in Req : Holding(r)
  /\ Did(rq["r1"], "SELECT products")
  /\ rq["r2"].route = "vis_event"

====
